---- MODULE Spec2Model ----
(***************************************************************************)
(* Almora Radar: the ingestion-and-fan-out pipeline.                       *)
(*                                                                         *)
(* Several state machines share this module.                               *)
(*   Spec          the /api/process handler (normalise, geocode, look up   *)
(*                 by source_link, insert or update, read back, trigger    *)
(*                 /api/notify), the /api/notify handler with the          *)
(*                 notification trigger logic, and the /api/cleanup        *)
(*                 retention sweep, all running against one MongoDB events *)
(*                 collection.                                             *)
(*   NotifySpec    Spec together with other callers of /api/notify.        *)
(*   SeqSpec       the same handlers with process requests served one      *)
(*                 after the other and no retention sweep.                 *)
(*   GeoSpec       the Nominatim client: geocodeLocation, reverseGeocode   *)
(*                 and the module-level rate limiter they share.           *)
(*   GeminiSpec    the normaliser: processArticleWithGemini with its retry *)
(*                 loop and validateGeminiResponse.                        *)
(*   RecipientSpec recipient selection: getNotificationRecipients.         *)
(*   ScrapeSpec    the ingestion run: POST /api/scrape.                    *)
(*   CronSpec      the two cron endpoints, /api/scrape and /api/cleanup,   *)
(*                 called with any Authorization header, CRON_SECRET set   *)
(*                 or not.                                                 *)
(*   FetchSpec     fetchContent of a news-site scraper and of the YouTube  *)
(*                 scraper, with validateArticle and resolveUrl.           *)
(*   IngestSpec    SeqSpec with the normaliser's response validated by     *)
(*                 validateGeminiResponse.                                 *)
(*   NoSweepSpec   Spec without the retention sweep.                       *)
(*   DispatchSpec  triggerEventNotifications with the multicast send.      *)
(*   SweepSpec     the retention sweep on a store holding events of every  *)
(*                 age, while articles are processed.                      *)
(*   OpenSpec      SeqSpec with process requests of any caller.            *)
(*   AdapterSpec   BaseScraper.scrape with its timeout, racing a           *)
(*                 fetchContent that loads pages through fetchHTML.        *)
(* Each await of the TypeScript source is a step boundary: the code        *)
(* between two awaits runs to completion on the Node event loop and is one *)
(* atomic action here.                                                     *)
(***************************************************************************)
EXTENDS Integers, Sequences, FiniteSets, TLC

----------------------------------------------------------------------------
(* Bounds of the model *)

MaxReqs == 2
MaxLinks == 2
MaxTime == 16
MaxManual == 1
MaxRecipients == 1
MaxCallers == 2
MaxGeoTime == 8000

(* Program constants *)

HIGH_PRIORITY_THRESHOLD == 4
DATA_RETENTION_DAYS == 15

REQUEST_DELAY == 1000
DefaultMaxRetries == 3

(* The Nominatim client's clock advances in steps of Quantum ms *)
Quantum == REQUEST_DELAY \div 2

(* The store machine's clock advances in steps of TickDays days *)
TickDays == (DATA_RETENTION_DAYS \div 2) + 1

Reqs == 1..MaxReqs
Links == 1..MaxLinks
(* priority_score values the normaliser lets through: validateGeminiResponse
   accepts the integers 1..5; the model samples both sides of the threshold *)
Priorities == {HIGH_PRIORITY_THRESHOLD - 1, HIGH_PRIORITY_THRESHOLD}

(* ALMORA_COORDINATES: lat 29.5971, lng 79.659 *)
AlmoraLat == 295971
AlmoraLng == 796590

(* a floating point number in ten-thousandths of a degree, NaN or an infinity *)
Finite(v) == [kind |-> "finite", v |-> v]
NaNFloat == [kind |-> "nan", v |-> 0]
PlusInfinity == [kind |-> "inf", v |-> 1]

NoCoordinates == [lat |-> NaNFloat, lng |-> NaNFloat]

ALMORA_COORDINATES == [lat |-> Finite(AlmoraLat), lng |-> Finite(AlmoraLng)]

(* x < y and x > y for a float x and a finite bound y in degrees: false for
   NaN *)
FloatLess(x, degrees) ==
  \/ x.kind = "finite" /\ x.v < degrees * 10000
  \/ x.kind = "inf" /\ x.v < 0

FloatGreater(x, degrees) ==
  \/ x.kind = "finite" /\ x.v > degrees * 10000
  \/ x.kind = "inf" /\ x.v > 0

(* validateCoordinates without the isFinite test *)
validateCoordinates_ranges(coords) ==
  /\ ~(FloatLess(coords.lat, -90) \/ FloatGreater(coords.lat, 90))
  /\ ~(FloatLess(coords.lng, -180) \/ FloatGreater(coords.lng, 180))

(* validateCoordinates: both are numbers (parseFloat always yields one),
   within the ranges, and finite *)
validateCoordinates(coords) ==
  /\ ~(FloatLess(coords.lat, -90) \/ FloatGreater(coords.lat, 90))
  /\ ~(FloatLess(coords.lng, -180) \/ FloatGreater(coords.lng, 180))
  /\ coords.lat.kind = "finite" /\ coords.lng.kind = "finite"

NoEvent ==
  [id |-> 0, link |-> 0, content |-> 0, prio |-> 0, half |-> FALSE, category |-> "",
   keywords |-> "null", coords |-> NoCoordinates,
   createdAt |-> 0, updatedAt |-> 0]

VARIABLES
  now,        \* wall clock of the store machine, in days
  events,     \* the MongoDB "events" collection: a set of documents
  nextId,     \* the next ObjectId the driver generates
  req,        \* per process request: position in POST and its locals
  cronSecret, \* process.env.CRON_SECRET: "" when not configured
  notifyQ,    \* fetch calls to /api/notify that are in flight
  triggers,   \* history: every notification trigger a process request issued
  notifyLog,  \* history: every /api/notify request handled, with its outcome
  manual,     \* number of /api/notify requests made by other callers
  cleanup     \* the retention sweep: position in POST and its locals

storeVars == <<now, events, nextId, req, cronSecret, notifyQ, triggers, notifyLog, manual, cleanup>>

VARIABLES
  geoNow,          \* Date.now() of the process that runs the Nominatim client, in ms
  lastRequestTime, \* the module-level timestamp of the rate limiter
  geo,             \* per caller: position in geocodeLocation or reverseGeocode
  sendLog          \* history: the times of the two latest requests sent to Nominatim

geoVars == <<geoNow, lastRequestTime, geo, sendLog>>

VARIABLES
  sel,   \* getNotificationRecipients: the call in progress and its result
  gem,   \* processArticleWithGemini: the call in progress and its result
  run,   \* POST /api/scrape: the ingestion run in progress
  fc,    \* fetchContent of a news-site scraper: the call in progress
  disp,  \* triggerEventNotifications: the call in progress and its result
  scr    \* BaseScraper.scrape: the call in progress, its fetchContent and
         \* the instance's errors list

libVars == <<sel, gem, run, fc, disp, scr>>

vars == <<storeVars, geoVars, libVars>>

----------------------------------------------------------------------------
(* Authentication: lib/utils/auth.ts *)

Secret == "s3cret"

(* An Authorization header is a sequence of pieces; <<>> is a request without
   the header.  "Bearer " is the scheme prefix. *)
NoHeader == <<>>
Headers == {NoHeader, <<"Bearer ", Secret>>, <<"Bearer ", "wrong">>, <<Secret>>}

(* authHeader.replace('Bearer ', ''): the first occurrence of the prefix is
   removed, anything else is kept *)
RECURSIVE StripBearer(_)
StripBearer(h) ==
  IF h = <<>> THEN <<>>
  ELSE IF Head(h) = "Bearer " THEN Tail(h)
  ELSE <<Head(h)>> \o StripBearer(Tail(h))

validateCronRequest(authHeader, secret) ==
  IF secret = "" THEN FALSE
  ELSE IF authHeader = NoHeader THEN FALSE
  ELSE IF StripBearer(authHeader) # <<secret>> THEN FALSE
  ELSE TRUE

----------------------------------------------------------------------------
(* The events collection *)

ByLink(l) == {e \in events : e.link = l}

(* a lookup that never matches (a query on the wrong field) *)
FindOne_miss(l) == {NoEvent}

(* collection.findOne({source_link}): some matching document, or null *)
FindOne(l) == IF ByLink(l) = {} THEN {NoEvent} ELSE ByLink(l)

(* the collection without idx_source_link *)
DuplicateKey_noIndex(doc) == FALSE

(* idx_source_link, unique: insertOne raises E11000 when a document with the
   same source_link is already stored *)
DuplicateKey(doc) == \E e \in events : e.link = doc.link

(* the document /api/process builds from the normalised article (step 3):
   prio is the whole part of priority_score and half marks a score of
   prio + 0.5;
   content stands for the fields taken from the request body and the text
   fields of the response (title, clean_title, summaries, location_text,
   incident_date, raw_text, images) *)
EventDocument(r) ==
  [id |-> nextId, link |-> req[r].link, content |-> req[r].content,
   prio |-> req[r].prio, half |-> req[r].half, category |-> req[r].category,
   keywords |-> req[r].keywords, coords |-> req[r].coords,
   createdAt |-> req[r].docTime, updatedAt |-> req[r].docTime]

(* an update that spreads eventDocument without restoring createdAt *)
UpdatedDocument_fresh(r, e) ==
  [id |-> e.id, link |-> req[r].link, content |-> req[r].content,
   prio |-> req[r].prio, half |-> req[r].half, category |-> req[r].category,
   keywords |-> req[r].keywords, coords |-> req[r].coords, createdAt |-> req[r].docTime,
   updatedAt |-> req[r].updTime]

(* an update that sets the fields of eventDocument one by one and forgets
   category and keywords *)
UpdatedDocument_keepsCategory(r, e) ==
  [id |-> e.id, link |-> req[r].link, content |-> req[r].content,
   prio |-> req[r].prio, half |-> req[r].half, category |-> e.category,
   keywords |-> e.keywords, coords |-> req[r].coords,
   createdAt |-> req[r].existing.createdAt, updatedAt |-> req[r].updTime]

(* updateOne({_id}, {$set: {...eventDocument, createdAt: existingEvent.createdAt,
   updatedAt: new Date()}}) applied to the stored document e *)
UpdatedDocument(r, e) ==
  [id |-> e.id, link |-> req[r].link, content |-> req[r].content,
   prio |-> req[r].prio, half |-> req[r].half, category |-> req[r].category,
   keywords |-> req[r].keywords, coords |-> req[r].coords,
   createdAt |-> req[r].existing.createdAt, updatedAt |-> req[r].updTime]

----------------------------------------------------------------------------
(* Notification trigger logic: lib/notifications/trigger.ts *)

shouldTriggerNotification(priorityScore) == priorityScore >= HIGH_PRIORITY_THRESHOLD

(* step 5 without the priority test, and without the isNew test *)
ProcessNotifies_anyPriority(priorityScore, isNew) == isNew

ProcessNotifies_anyWrite(priorityScore, isNew) == priorityScore >= HIGH_PRIORITY_THRESHOLD

(* the condition under which /api/process calls /api/notify (step 5) *)
ProcessNotifies(priorityScore, isNew) == priorityScore >= HIGH_PRIORITY_THRESHOLD /\ isNew

(* triggerEventNotifications for an event of the given priority when
   getNotificationRecipients returns n recipients and the multicast push
   delivers to s of them *)
triggerEventNotifications(priorityScore, n, s) ==
  IF ~shouldTriggerNotification(priorityScore)
  THEN [selected |-> FALSE, pushCalls |-> 0, tokens |-> 0, sent |-> 0, failed |-> 0]
  ELSE IF n = 0
  THEN [selected |-> TRUE, pushCalls |-> 0, tokens |-> 0, sent |-> 0, failed |-> 0]
  ELSE [selected |-> TRUE, pushCalls |-> 1, tokens |-> n, sent |-> s, failed |-> n - s]

NotInvoked == [selected |-> FALSE, pushCalls |-> 0, tokens |-> 0, sent |-> 0, failed |-> 0]

(* POST /api/notify for the request m *)
NotifyOutcome(m, n, s) ==
  IF ~validateCronRequest(m.auth, cronSecret)
  THEN [status |-> 401, invoked |-> FALSE, result |-> NotInvoked]
  ELSE IF m.eventId = 0 \/ m.prio = 0
  THEN [status |-> 400, invoked |-> FALSE, result |-> NotInvoked]
  ELSE [status |-> 200, invoked |-> TRUE,
        result |-> triggerEventNotifications(m.prio, n, s)]

----------------------------------------------------------------------------
(* Initial state: an empty collection, no request in progress *)

IdleReq ==
  [pc |-> "idle", link |-> 0, content |-> 0, prio |-> 0, half |-> FALSE, category |-> "",
   keywords |-> "null", geocoded |-> "",
   coords |-> NoCoordinates, docTime |-> 0,
   existing |-> NoEvent, updTime |-> 0, isNew |-> FALSE, status |-> 0,
   error |-> "", final |-> NoEvent, auth |-> NoHeader]

IdleCleanup == [pc |-> "idle", auth |-> NoHeader, status |-> 0, cutoff |-> 0, old |-> {}]

Callers == 1..MaxCallers

(* text is the locationText of the call; requests and failures count the
   fetch calls of the call in progress and those that failed; answer is what
   the last request was answered; coords and success are the GeocodingResult *)
IdleCaller ==
  [pc |-> "idle", kind |-> "", text |-> <<>>, attempt |-> 0, wakeAt |-> 0, result |-> "",
   requests |-> 0, failures |-> 0, answer |-> "",
   coords |-> NoCoordinates, success |-> FALSE]

(* the module has just been loaded: let lastRequestTime = 0, and Date.now()
   is far beyond REQUEST_DELAY *)
GeoInit ==
  /\ geoNow = REQUEST_DELAY
  /\ lastRequestTime = 0
  /\ geo = [c \in Callers |-> IdleCaller]
  /\ sendLog = <<>>

StoreInit ==
  /\ now = 0
  /\ events = {}
  /\ nextId = 1
  /\ req = [r \in Reqs |-> IdleReq]
  /\ cronSecret = Secret
  /\ notifyQ = {}
  /\ triggers = {}
  /\ notifyLog = {}
  /\ manual = 0
  /\ cleanup = IdleCleanup

IdleCall == [pc |-> "idle"]

LibInit ==
  /\ sel = IdleCall
  /\ gem = IdleCall
  /\ run = IdleCall
  /\ fc = IdleCall
  /\ disp = IdleCall
  /\ scr = IdleCall

Init == StoreInit /\ GeoInit /\ LibInit

----------------------------------------------------------------------------
(* POST /api/process *)

(* the handler answers with an error status and message; its locals are
   gone once it has returned *)
Fail(r, code, message) ==
  [req EXCEPT ![r].pc = "done", ![r].status = code, ![r].error = message,
              ![r].coords = NoCoordinates,
              ![r].docTime = 0, ![r].existing = NoEvent, ![r].updTime = 0]

(* a request with the Authorization header h arrives: the handler reads the
   body only; a body without title, content or sourceLink is answered 400.
   Every request carries its own article text, named by the request's
   number. *)
ReceiveFrom(r, h) ==
  /\ req[r].pc = "idle"
  /\ \A q \in Reqs : q < r => req[q].pc # "idle"
  /\ \E l \in Links, complete \in BOOLEAN :
       req' = IF complete
              THEN [req EXCEPT ![r].pc = "gemini", ![r].link = l, ![r].content = r,
                               ![r].auth = h]
              ELSE [Fail(r, 400, "Missing required fields") EXCEPT ![r].auth = h]
  /\ UNCHANGED <<now, events, nextId, cronSecret, notifyQ, triggers, notifyLog, manual, cleanup, geoVars, libVars>>

(* the request POST /api/scrape sends for an article: its headers are
   'Content-Type' only *)
Receive(r) == ReceiveFrom(r, NoHeader)

(* a normaliser failure that is logged while the handler carries on *)
Gemini_carriesOn(r) ==
  /\ req[r].pc = "gemini"
  /\ \/ \E p \in Priorities :
          req' = [req EXCEPT ![r].pc = "geocode", ![r].prio = p,
                             ![r].category = "accident", ![r].keywords = "array"]
     \/ req' = [req EXCEPT ![r].pc = "geocode", ![r].status = 500,
                           ![r].error = "Gemini API failed"]
  /\ UNCHANGED <<now, events, nextId, cronSecret, notifyQ, triggers, notifyLog, manual, cleanup, geoVars, libVars>>

(* step 1: processArticleWithGemini returns a validated response, of either
   side of the notification threshold, or throws after its retries and the
   handler answers 500 *)
Gemini(r) ==
  /\ req[r].pc = "gemini"
  /\ \/ \E p \in Priorities :
          req' = [req EXCEPT ![r].pc = "geocode", ![r].prio = p,
                             ![r].category = "accident", ![r].keywords = "array"]
     \/ req' = Fail(r, 500, "Gemini API failed")
  /\ UNCHANGED <<now, events, nextId, cronSecret, notifyQ, triggers, notifyLog, manual, cleanup, geoVars, libVars>>

(* the results geocodeLocation returns: coordinates it validated with
   success = true, or ALMORA_COORDINATES with success = false *)
GeocodingResults ==
  {[coords |-> [lat |-> Finite(290000), lng |-> Finite(910000)], success |-> TRUE],
   [coords |-> ALMORA_COORDINATES, success |-> FALSE]}

(* lines 47-56: the coordinates of the result, replaced by 29.5971, 79.659
   when validateCoordinates rejects them *)
EventCoordinates(result) ==
  IF validateCoordinates(result.coords) THEN result.coords ELSE ALMORA_COORDINATES

(* a geocoding step whose failure is thrown to the handler's catch *)
Geocode_throws(r) ==
  /\ req[r].pc = "geocode"
  /\ \E result \in GeocodingResults :
       req' = IF result.success
              THEN [req EXCEPT ![r].pc = "find", ![r].docTime = now, ![r].geocoded = "success",
                               ![r].coords = EventCoordinates(result)]
              ELSE [Fail(r, 500, "Geocoding failed") EXCEPT ![r].geocoded = "fallback"]
  /\ UNCHANGED <<now, events, nextId, cronSecret, notifyQ, triggers, notifyLog, manual, cleanup, geoVars, libVars>>

(* step 2 and 3: geocodeLocation always returns; the event document is built
   with the coordinates of its result and createdAt = updatedAt = new Date() *)
Geocode(r) ==
  /\ req[r].pc = "geocode"
  /\ \E result \in GeocodingResults :
       req' = [req EXCEPT ![r].pc = "find", ![r].docTime = now,
                          ![r].geocoded = IF result.success THEN "success" ELSE "fallback",
                          ![r].coords = EventCoordinates(result)]
  /\ UNCHANGED <<now, events, nextId, cronSecret, notifyQ, triggers, notifyLog, manual, cleanup, geoVars, libVars>>

(* step 4, lookup: findOne({source_link}); on a hit the update's
   updatedAt = new Date() is taken before updateOne is sent *)
Lookup(r) ==
  /\ req[r].pc = "find"
  /\ \E e \in FindOne(req[r].link) :
       req' = [req EXCEPT ![r].pc = "write", ![r].existing = e,
                          ![r].updTime = IF e = NoEvent THEN 0 ELSE now]
  /\ UNCHANGED <<now, events, nextId, cronSecret, notifyQ, triggers, notifyLog, manual, cleanup, geoVars, libVars>>

(* step 4, update branch: updateOne({_id: existingEvent._id}, {$set: ...});
   a filter that matches nothing changes nothing *)
UpdateOne(r) ==
  /\ req[r].pc = "write"
  /\ req[r].existing # NoEvent
  /\ events' = {IF e.id = req[r].existing.id THEN UpdatedDocument(r, e) ELSE e : e \in events}
  /\ req' = [req EXCEPT ![r].pc = "read"]
  /\ UNCHANGED <<now, nextId, cronSecret, notifyQ, triggers, notifyLog, manual, cleanup, geoVars, libVars>>

(* an insert branch that calls /api/notify before insertOne has completed *)
InsertOne_notifyFirst(r) ==
  /\ req[r].pc = "write"
  /\ req[r].existing = NoEvent
  /\ IF DuplicateKey(EventDocument(r))
     THEN /\ req' = Fail(r, 500, "E11000 duplicate key")
          /\ UNCHANGED <<events, nextId, notifyQ, triggers>>
     ELSE /\ events' = events \cup {EventDocument(r)}
          /\ nextId' = nextId + 1
          /\ req' = [req EXCEPT ![r].pc = "read", ![r].isNew = TRUE]
          /\ IF ProcessNotifies(req[r].prio, TRUE)
             THEN /\ notifyQ' = notifyQ \cup
                       {[src |-> r, auth |-> NoHeader, eventId |-> nextId, prio |-> req[r].prio]}
                  /\ triggers' = triggers \cup
                       {[req |-> r, eventId |-> nextId, stored |-> EventDocument(r) \in events]}
             ELSE UNCHANGED <<notifyQ, triggers>>
  /\ UNCHANGED <<now, cronSecret, notifyLog, manual, cleanup, geoVars, libVars>>

(* step 4, insert branch: insertOne(eventDocument); a duplicate key error is
   caught by the handler's catch and answered 500 *)
InsertOne(r) ==
  /\ req[r].pc = "write"
  /\ req[r].existing = NoEvent
  /\ IF DuplicateKey(EventDocument(r))
     THEN /\ req' = Fail(r, 500, "E11000 duplicate key")
          /\ UNCHANGED <<events, nextId>>
     ELSE /\ events' = events \cup {EventDocument(r)}
          /\ nextId' = nextId + 1
          /\ req' = [req EXCEPT ![r].pc = "read", ![r].isNew = TRUE]
  /\ UNCHANGED <<now, cronSecret, notifyQ, triggers, notifyLog, manual, cleanup, geoVars, libVars>>

(* the request sent to /api/notify: Content-Type is its only header *)
NotifyRequest(r, e) ==
  [src |-> r, auth |-> NoHeader, eventId |-> e.id, prio |-> e.prio]

(* read back and step 5: findOne({source_link}); no document is 'Failed to
   retrieve saved event' (500); otherwise the notification is triggered
   without being awaited and the event is returned with 201 or 200 *)
ReadBack(r) ==
  /\ req[r].pc = "read"
  /\ \E e \in FindOne(req[r].link) :
       IF e = NoEvent
       THEN /\ req' = Fail(r, 500, "Failed to retrieve saved event")
            /\ UNCHANGED <<notifyQ, triggers>>
       ELSE /\ req' = [req EXCEPT ![r].pc = "done", ![r].final = e,
                                  ![r].status = IF req[r].isNew THEN 201 ELSE 200,
                                  ![r].coords = NoCoordinates,
                                  ![r].docTime = 0, ![r].existing = NoEvent,
                                  ![r].updTime = 0]
            /\ IF ProcessNotifies(req[r].prio, req[r].isNew)
               THEN /\ notifyQ' = notifyQ \cup {NotifyRequest(r, e)}
                    /\ triggers' = triggers \cup
                         {[req |-> r, eventId |-> e.id, stored |-> e \in events]}
               ELSE UNCHANGED <<notifyQ, triggers>>
  /\ UNCHANGED <<now, events, nextId, cronSecret, notifyLog, manual, cleanup, geoVars, libVars>>

(* a store operation (findOne, updateOne, insertOne) rejects: caught, 500 *)
StoreError(r) ==
  /\ req[r].pc \in {"find", "write", "read"}
  /\ req' = Fail(r, 500, "store error")
  /\ UNCHANGED <<now, events, nextId, cronSecret, notifyQ, triggers, notifyLog, manual, cleanup, geoVars, libVars>>

----------------------------------------------------------------------------
(* POST /api/notify *)

LogEntry(m, out) ==
  [src |-> m.src, eventId |-> m.eventId, prio |-> m.prio, status |-> out.status,
   invoked |-> out.invoked, result |-> out.result]

(* the fetch issued by /api/process reaches the endpoint and is handled *)
NotifyArrive(m) ==
  /\ m \in notifyQ
  /\ \E n \in 0..MaxRecipients : \E s \in 0..n :
       notifyLog' = notifyLog \cup {LogEntry(m, NotifyOutcome(m, n, s))}
  /\ notifyQ' = notifyQ \ {m}
  /\ UNCHANGED <<now, events, nextId, req, cronSecret, triggers, manual, cleanup, geoVars, libVars>>

(* a catch handler that takes the stored event back when the call fails *)
NotifyCatch_rollback(m) ==
  /\ m \in notifyQ
  /\ notifyQ' = notifyQ \ {m}
  /\ events' = {e \in events : e.id # m.eventId}
  /\ UNCHANGED <<now, nextId, req, cronSecret, triggers, notifyLog, manual, cleanup, geoVars, libVars>>

(* the fetch issued by /api/process rejects (the endpoint is unreachable):
   .catch logs the error *)
NotifyCatch(m) ==
  /\ m \in notifyQ
  /\ notifyQ' = notifyQ \ {m}
  /\ UNCHANGED <<now, events, nextId, req, cronSecret, triggers, notifyLog, manual, cleanup, geoVars, libVars>>

(* another caller (an operator, a cron job) posts to /api/notify *)
NotifyManual ==
  /\ manual < MaxManual
  /\ manual' = manual + 1
  /\ \E h \in Headers, p \in Priorities :
       LET m == [src |-> 0, auth |-> h, eventId |-> 1, prio |-> p] IN
       \E n \in 0..MaxRecipients : \E s \in 0..n :
         notifyLog' = notifyLog \cup {LogEntry(m, NotifyOutcome(m, n, s))}
  /\ UNCHANGED <<now, events, nextId, req, cronSecret, notifyQ, triggers, cleanup, geoVars, libVars>>

----------------------------------------------------------------------------
(* POST /api/cleanup *)

(* getDaysAgo(DATA_RETENTION_DAYS) *)
getDaysAgo(days) == now - days

(* a filter that takes the events created at the cutoff too *)
OlderThan_inclusive(cutoff) == {e \in events : e.createdAt <= cutoff}

(* {createdAt: {$lt: cutoffDate}} *)
OlderThan(cutoff) == {e \in events : e.createdAt < cutoff}

(* the request with the Authorization header h arrives: unless
   validateCronRequest accepts it, it is answered 401; otherwise step 1:
   find({createdAt: {$lt: cutoffDate}}); nothing found returns *)
CleanupPost(h) ==
  /\ cleanup.pc = "idle"
  /\ LET cutoffDate == getDaysAgo(DATA_RETENTION_DAYS) IN
       cleanup' = IF ~validateCronRequest(h, cronSecret)
                  THEN [IdleCleanup EXCEPT !.pc = "unauthorized", !.auth = h, !.status = 401]
                  ELSE IF OlderThan(cutoffDate) = {}
                  THEN IdleCleanup
                  ELSE [IdleCleanup EXCEPT !.pc = "delete", !.auth = h,
                                           !.cutoff = cutoffDate,
                                           !.old = OlderThan(cutoffDate)]
  /\ UNCHANGED <<now, events, nextId, req, cronSecret, notifyQ, triggers, notifyLog, manual, geoVars, libVars>>

(* the request of the cron worker: 'Authorization': `Bearer ${CRON_SECRET}` *)
CleanupFind == CleanupPost(<<"Bearer ", Secret>>)

(* a request of any caller *)
CleanupRequest == \E h \in Headers : CleanupPost(h)

(* the 401 response has been sent *)
CleanupReturn ==
  /\ cleanup.pc = "unauthorized"
  /\ cleanup' = IdleCleanup
  /\ UNCHANGED <<now, events, nextId, req, cronSecret, notifyQ, triggers, notifyLog, manual, geoVars, libVars>>

(* step 2: deleteMany({createdAt: {$lt: cutoffDate}}); step 3 deletes the
   comments of the events found in step 1 from the comment store *)
CleanupDelete ==
  /\ cleanup.pc = "delete"
  /\ events' = events \ OlderThan(cleanup.cutoff)
  /\ cleanup' = IdleCleanup
  /\ UNCHANGED <<now, nextId, req, cronSecret, notifyQ, triggers, notifyLog, manual, geoVars, libVars>>

----------------------------------------------------------------------------
(* Time passes *)

Tick ==
  /\ now + TickDays <= MaxTime
  /\ now' = now + TickDays
  /\ UNCHANGED <<events, nextId, req, cronSecret, notifyQ, triggers, notifyLog, manual, cleanup, geoVars, libVars>>

----------------------------------------------------------------------------

Process(r) ==
  \/ Receive(r)
  \/ Gemini(r)
  \/ Geocode(r)
  \/ Lookup(r)
  \/ UpdateOne(r)
  \/ InsertOne(r)
  \/ ReadBack(r)
  \/ StoreError(r)

(* the pipeline: process requests, their notification calls, the retention
   sweep *)
Next ==
  \/ \E r \in Reqs : Process(r)
  \/ \E m \in notifyQ : NotifyArrive(m)
  \/ \E m \in notifyQ : NotifyCatch(m)
  \/ CleanupFind
  \/ CleanupDelete
  \/ Tick

Spec == Init /\ [][Next]_vars

(* the pipeline together with other callers of /api/notify *)
NotifyNext ==
  \/ Next
  \/ NotifyManual

NotifySpec == Init /\ [][NotifyNext]_vars

(* Process requests served one after the other, no retention sweep *)
Quiet(r) == \A q \in Reqs : q # r => req[q].pc \in {"idle", "done"}

SeqNext ==
  \/ \E r \in Reqs : Quiet(r) /\ Receive(r)
  \/ \E r \in Reqs : Quiet(r) /\ Gemini(r)
  \/ \E r \in Reqs : Quiet(r) /\ Geocode(r)
  \/ \E r \in Reqs : Quiet(r) /\ Lookup(r)
  \/ \E r \in Reqs : Quiet(r) /\ UpdateOne(r)
  \/ \E r \in Reqs : Quiet(r) /\ InsertOne(r)
  \/ \E r \in Reqs : Quiet(r) /\ ReadBack(r)
  \/ \E r \in Reqs : Quiet(r) /\ StoreError(r)
  \/ Tick

SeqSpec == Init /\ [][SeqNext]_vars

----------------------------------------------------------------------------
(* The Nominatim client: lib/geocoding/nominatim.ts *)

(* location texts, as sequences of characters *)
Texts == {<<>>, <<" ", " ">>, <<"M", " ", "R">>}

(* locationText.trim() *)
RECURSIVE TrimLeft(_)
TrimLeft(t) == IF t # <<>> /\ Head(t) = " " THEN TrimLeft(Tail(t)) ELSE t

RECURSIVE TrimRight(_)
TrimRight(t) ==
  IF t # <<>> /\ t[Len(t)] = " " THEN TrimRight(SubSeq(t, 1, Len(t) - 1)) ELSE t

Trim(t) == TrimRight(TrimLeft(t))

(* a test that takes only the empty string for blank *)
IsBlank_emptyOnly(t) == t = <<>>

(* !locationText || locationText.trim().length === 0 *)
IsBlank(t) == t = <<>> \/ Len(Trim(t)) = 0

RECURSIVE Pow2(_)
Pow2(n) == IF n = 0 THEN 1 ELSE 2 * Pow2(n - 1)

(* the backoff before the next attempt: 1000 * Math.pow(2, attempt) *)
BackoffDelay(attempt) == 1000 * Pow2(attempt)

(* the request leaves for Nominatim at the current time *)
Sent == IF sendLog = <<>> THEN <<geoNow>> ELSE <<sendLog[Len(sendLog)], geoNow>>

(* enforceRateLimit up to its await, entered by caller c whose other locals
   are as in g: a call within REQUEST_DELAY of lastRequestTime sleeps for the
   remainder; otherwise lastRequestTime is set and the request is sent *)
enforceRateLimit(c, g) ==
  LET timeSinceLastRequest == geoNow - lastRequestTime IN
  IF timeSinceLastRequest < REQUEST_DELAY
  THEN /\ geo' = [g EXCEPT ![c].pc = "sleep",
                           ![c].wakeAt = geoNow + (REQUEST_DELAY - timeSinceLastRequest)]
       /\ UNCHANGED <<lastRequestTime, sendLog>>
  ELSE /\ geo' = [g EXCEPT ![c].pc = "fetch", ![c].requests = g[c].requests + 1]
       /\ lastRequestTime' = geoNow
       /\ sendLog' = Sent

(* geocodeLocation(locationText): blank text returns the fallback at once;
   otherwise the first attempt enters the rate limiter *)
GeocodeCall(c) ==
  /\ geo[c].pc = "idle"
  /\ \E t \in Texts :
       IF IsBlank(t)
       THEN /\ geo' = [geo EXCEPT ![c].pc = "done", ![c].kind = "geocode", ![c].text = t,
                                  ![c].result = "fallback", ![c].coords = ALMORA_COORDINATES]
            /\ UNCHANGED <<lastRequestTime, sendLog>>
       ELSE enforceRateLimit(c, [geo EXCEPT ![c].kind = "geocode", ![c].text = t,
                                            ![c].attempt = 0])
  /\ UNCHANGED <<geoNow, storeVars, libVars>>

(* reverseGeocode(coords) enters the rate limiter *)
ReverseCall(c) ==
  /\ geo[c].pc = "idle"
  /\ enforceRateLimit(c, [geo EXCEPT ![c].kind = "reverse", ![c].attempt = 0])
  /\ UNCHANGED <<geoNow, storeVars, libVars>>

(* enforceRateLimit after its await: the timer has fired, lastRequestTime is
   set and the request is sent *)
RateLimitWake(c) ==
  /\ geo[c].pc = "sleep"
  /\ geoNow >= geo[c].wakeAt
  /\ geo' = [geo EXCEPT ![c].pc = "fetch", ![c].wakeAt = 0,
                         ![c].requests = geo[c].requests + 1]
  /\ lastRequestTime' = geoNow
  /\ sendLog' = Sent
  /\ UNCHANGED <<geoNow, storeVars, libVars>>

(* the lat and lon strings of a Nominatim result, as sequences of
   characters; "Infinity" is one token *)
RawNumbers ==
  {<<"2", "9">>, <<"9", "1">>, <<"1", "8", "1">>, <<"-", "9", "1">>, <<"2", "9", "x">>,
   <<"x">>, <<"Infinity">>, <<>>}

Digits == {"0", "1", "2", "3", "4", "5", "6", "7", "8", "9"}

DigitValue(ch) ==
  CASE ch = "0" -> 0 [] ch = "1" -> 1 [] ch = "2" -> 2 [] ch = "3" -> 3 [] ch = "4" -> 4
    [] ch = "5" -> 5 [] ch = "6" -> 6 [] ch = "7" -> 7 [] ch = "8" -> 8 [] ch = "9" -> 9

(* the value of the longest prefix of digits of t, after the value acc *)
RECURSIVE DigitPrefix(_, _)
DigitPrefix(t, acc) ==
  IF t # <<>> /\ Head(t) \in Digits
  THEN DigitPrefix(Tail(t), 10 * acc + DigitValue(Head(t)))
  ELSE acc

(* parseFloat: an optional sign, then Infinity or the longest numeric prefix;
   NaN when there is none *)
parseFloat(t) ==
  LET negative == t # <<>> /\ Head(t) = "-"
      rest == IF negative THEN Tail(t) ELSE t
  IN IF rest = <<>> THEN NaNFloat
     ELSE IF Head(rest) = "Infinity"
     THEN [kind |-> "inf", v |-> IF negative THEN -1 ELSE 1]
     ELSE IF Head(rest) \notin Digits THEN NaNFloat
     ELSE Finite((IF negative THEN -1 ELSE 1) * 10000 * DigitPrefix(rest, 0))

(* the fallback result: ...ALMORA_COORDINATES, success: false *)
Fallback(c, message) ==
  [geo EXCEPT ![c].pc = "done", ![c].result = message,
              ![c].coords = ALMORA_COORDINATES, ![c].success = FALSE]

(* a client that takes an answer without a usable result for a failure:
   it backs off and asks again *)
NoResults_retries(c, answer) ==
  [geo EXCEPT ![c].pc = "backoff", ![c].answer = answer,
              ![c].failures = geo[c].failures + 1,
              ![c].wakeAt = geoNow + BackoffDelay(geo[c].attempt)]

(* lines 75-81: the list is empty, or validateCoordinates refused the first
   result: the fallback is returned from inside the loop *)
NoResults(c, answer) == [Fallback(c, "fallback") EXCEPT ![c].answer = answer]

(* a loop that stops one attempt early *)
GeocodeLoopContinues_short(attempt, maxRetries) == attempt < maxRetries

(* for (attempt = 0; attempt <= maxRetries; attempt++) in geocodeLocation *)
GeocodeLoopContinues(attempt, maxRetries) == attempt <= maxRetries

(* the search request completes.  A transport error or a non-2xx status is
   caught: back off and retry while the loop continues, else the fallback.
   An empty list returns the fallback.  Otherwise the first result's lat and
   lon are parsed and returned when validateCoordinates accepts them, else
   the fallback is returned *)
SearchResponse(c) ==
  /\ geo[c].pc = "fetch"
  /\ geo[c].kind = "geocode"
  /\ \/ geo' = IF GeocodeLoopContinues(geo[c].attempt + 1, DefaultMaxRetries)
               THEN [geo EXCEPT ![c].pc = "backoff", ![c].answer = "failed",
                                ![c].failures = geo[c].failures + 1,
                                ![c].wakeAt = geoNow + BackoffDelay(geo[c].attempt)]
               ELSE [Fallback(c, "fallback after retries")
                       EXCEPT ![c].failures = geo[c].failures + 1,
                              ![c].answer = "failed"]
     \/ geo' = NoResults(c, "empty")
     \/ \E lat \in RawNumbers, lon \in RawNumbers :
          LET coords == [lat |-> parseFloat(lat), lng |-> parseFloat(lon)] IN
          geo' = IF validateCoordinates(coords)
                 THEN [geo EXCEPT ![c].pc = "done", ![c].result = "success",
                                  ![c].answer = "valid",
                                  ![c].coords = coords, ![c].success = TRUE]
                 ELSE NoResults(c, "invalid")
  /\ UNCHANGED <<geoNow, lastRequestTime, sendLog, storeVars, libVars>>

(* the backoff timer fires: the next attempt enters the rate limiter *)
BackoffWake(c) ==
  /\ geo[c].pc = "backoff"
  /\ geoNow >= geo[c].wakeAt
  /\ enforceRateLimit(c, [geo EXCEPT ![c].attempt = geo[c].attempt + 1, ![c].wakeAt = 0,
                                      ![c].answer = ""])
  /\ UNCHANGED <<geoNow, storeVars, libVars>>

(* the reverse request completes: the display name, or 'Unknown location' *)
ReverseResponse(c) ==
  /\ geo[c].pc = "fetch"
  /\ geo[c].kind = "reverse"
  /\ \E outcome \in {"ok", "error"} :
       geo' = [geo EXCEPT ![c].pc = "done",
                          ![c].result = IF outcome = "ok" THEN "name" ELSE "Unknown location"]
  /\ UNCHANGED <<geoNow, lastRequestTime, sendLog, storeVars, libVars>>

(* the caller takes the result and may call again *)
GeoReturn(c) ==
  /\ geo[c].pc = "done"
  /\ geo' = [geo EXCEPT ![c] = IdleCaller]
  /\ UNCHANGED <<geoNow, lastRequestTime, sendLog, storeVars, libVars>>

GeoTick ==
  /\ geoNow + Quantum <= MaxGeoTime
  /\ geoNow' = geoNow + Quantum
  /\ UNCHANGED <<lastRequestTime, geo, sendLog, storeVars, libVars>>

GeoNext ==
  \/ \E c \in Callers :
       \/ GeocodeCall(c)
       \/ ReverseCall(c)
       \/ RateLimitWake(c)
       \/ SearchResponse(c)
       \/ BackoffWake(c)
       \/ ReverseResponse(c)
       \/ GeoReturn(c)
  \/ GeoTick

GeoSpec == Init /\ [][GeoNext]_vars

(* C5: any two requests sent to Nominatim are at least REQUEST_DELAY apart *)
C5_MinimumSpacing ==
  Len(sendLog) = 2 => sendLog[2] - sendLog[1] >= REQUEST_DELAY

----------------------------------------------------------------------------
(* Properties of the event store writer *)

Succeeded(r) == req[r].pc = "done" /\ req[r].status \in {200, 201}

(* C1: whatever the interleaving of process requests, the events collection
   never holds two distinct documents with the same source_link *)
C1_UniqueSourceLink ==
  \A e1, e2 \in events : e1.link = e2.link => e1 = e2

(* C1 witness: two requests for the same link both looked up nothing; one
   inserted, the other's insert was refused by the unique index *)
C1_Witness ==
  \E r, q \in Reqs :
    /\ r # q
    /\ req[r].link = req[q].link
    /\ req[r].isNew
    /\ req[q].pc = "done" /\ ~req[q].isNew
    /\ req[q].error = "E11000 duplicate key"
    /\ Cardinality(ByLink(req[r].link)) = 1

(* C2: with process requests served one after the other, every link that was
   successfully processed has exactly one stored event, every stored event
   comes from one insert, and a request for a stored link updates that
   document: it is answered 200 for the document it found and is never
   refused as a duplicate *)
C2_SequentialIdempotent ==
  /\ \A r \in Reqs : Succeeded(r) => Cardinality(ByLink(req[r].link)) = 1
  /\ Cardinality(events) = Cardinality({r \in Reqs : req[r].isNew})
  /\ \A r \in Reqs : req[r].error # "E11000 duplicate key"
  /\ \A r \in Reqs : Succeeded(r) /\ ~req[r].isNew =>
        /\ req[r].status = 200
        /\ \E e \in ByLink(req[r].link) : e.id = req[r].final.id

(* C2 witness: the same link processed twice, created then updated, and one
   event stored for it *)
C2_Witness ==
  \E r, q \in Reqs :
    /\ r # q
    /\ req[r].link = req[q].link
    /\ Succeeded(r) /\ req[r].status = 201
    /\ Succeeded(q) /\ req[q].status = 200
    /\ req[q].final.id = req[r].final.id
    /\ Cardinality(ByLink(req[r].link)) = 1

(* C3: lookup and write are one atomic upsert: while a request is between
   its lookup and its write, no other request's write for the same link
   takes effect *)
C3_AtomicUpsert ==
  [][\A r, q \in Reqs :
       (/\ r # q
        /\ req[r].pc = "write"
        /\ req[q].pc = "write"
        /\ req[r].link = req[q].link)
       => ~(req'[q].pc = "read" /\ events' # events)]_vars

(* C4: while an event is stored for a link its createdAt never changes, and
   a request that updates it sets updatedAt to the time that request took for
   the update, which is not before the creation time nor before the request
   prepared its document *)
C4_CreatedAtPreserved ==
  [][\A e \in events : \A f \in events' :
       e.link = f.link =>
         /\ f.createdAt = e.createdAt
         /\ f # e => \E r \in Reqs :
               /\ req[r].pc = "write" /\ req'[r].pc = "read"
               /\ f.updatedAt = req[r].updTime
               /\ f.updatedAt >= f.createdAt
               /\ f.updatedAt >= req[r].docTime]_vars

(* C4 witness: an event updated at a later time than it was created *)
C4_Witness ==
  \E e \in events : \E r \in Reqs :
    /\ req[r].pc = "read"
    /\ req[r].existing.id = e.id
    /\ e.content = req[r].content
    /\ e.updatedAt > e.createdAt

----------------------------------------------------------------------------
(* Properties of the notification trigger *)

TriggeredBy(r) == {t \in triggers : t.req = r}

(* C6: every trigger a process request issued for a newly created event of
   priority >= 4, once it has reached /api/notify, has invoked
   triggerEventNotifications and run recipient selection *)
C6_TriggerReachesDispatcher ==
  \A x \in notifyLog :
    (x.src \in Reqs /\ req[x.src].isNew /\ req[x.src].prio >= HIGH_PRIORITY_THRESHOLD)
      => x.invoked

(* C7: no push for priority < 4: a process request whose normalised priority
   is below 4 issues no trigger; triggerEventNotifications with priority
   below 4 returns sent 0, failed 0 with no recipient selection and no push
   call; every push call made was for priority >= 4 *)
C7_LowPriorityNeverPushes ==
  /\ \A r \in Reqs : req[r].prio < HIGH_PRIORITY_THRESHOLD => TriggeredBy(r) = {}
  /\ \A x \in notifyLog :
       x.prio < HIGH_PRIORITY_THRESHOLD =>
         /\ ~x.result.selected
         /\ x.result.pushCalls = 0
         /\ x.result.sent = 0 /\ x.result.failed = 0
  /\ \A x \in notifyLog :
       x.result.pushCalls > 0 => x.prio >= HIGH_PRIORITY_THRESHOLD

(* C7 witness: a request created an event of priority 3 and answered 201,
   and triggerEventNotifications was invoked with priority 3 *)
C7_Witness ==
  /\ \E r \in Reqs :
       Succeeded(r) /\ req[r].isNew /\ req[r].prio < HIGH_PRIORITY_THRESHOLD
  /\ \E x \in notifyLog : x.invoked /\ x.prio < HIGH_PRIORITY_THRESHOLD

(* C8: only a request that inserted the event issues a trigger: a request
   that found the link stored issues none, whatever its priority *)
C8_OnlyNewEventsTrigger ==
  /\ \A t \in triggers : req[t.req].isNew /\ req[t.req].status = 201
  /\ \A r \in Reqs : req[r].existing # NoEvent => TriggeredBy(r) = {}
  /\ \A r \in Reqs : req[r].status = 200 => TriggeredBy(r) = {}

(* C8 witness: a request created an event with priority 3, a later request
   raised the same event to priority 4 and was answered 200 *)
C8_Witness ==
  \E q, r \in Reqs :
    /\ Succeeded(q) /\ req[q].status = 201
    /\ req[q].final.prio < HIGH_PRIORITY_THRESHOLD
    /\ Succeeded(r) /\ req[r].status = 200
    /\ req[r].final.id = req[q].final.id
    /\ req[r].prio >= HIGH_PRIORITY_THRESHOLD
    /\ req[r].final.prio >= HIGH_PRIORITY_THRESHOLD

(* C9: a trigger is issued only by a request whose insert has completed and
   that has read the event back: the event was stored when the trigger was
   issued and is the one the request returns *)
C9_TriggerAfterDurableWrite ==
  \A t \in triggers :
    /\ t.stored
    /\ req[t.req].pc = "done"
    /\ req[t.req].isNew
    /\ req[t.req].final.id = t.eventId

(* C9 witness: a trigger was issued for a stored event *)
C9_Witness ==
  \E t \in triggers : \E e \in events : e.id = t.eventId /\ req[t.req].status = 201

(* C10: the outcome of the notification call touches neither the stored
   events nor any response: a request that issued a trigger has returned the
   created event with 201 whether the call is still in flight, failed or was
   rejected *)
C10_NotifyOutcomeIndependent ==
  /\ [](\A t \in triggers :
          /\ req[t.req].status = 201
          /\ req[t.req].error = ""
          /\ req[t.req].final # NoEvent)
  /\ [][(notifyQ' # notifyQ /\ notifyQ' \subseteq notifyQ) =>
          (events' = events /\ req' = req)]_vars

(* C10 witness: the call was rejected with 401, the request stays answered
   201 and its event stays stored *)
C10_Witness ==
  \E r \in Reqs : \E x \in notifyLog :
    /\ x.src = r /\ x.status = 401
    /\ req[r].status = 201
    /\ req[r].final \in events

----------------------------------------------------------------------------
(* Recipient selection: getNotificationRecipients, lib/notifications/trigger.ts,
   with calculateDistance of lib/utils/geo.ts *)

MaxSubscribers == 2

GEOFENCE_RADIUS_KM == 50

(* JavaScript values that reach calculateDistance: a Coordinates object, in
   ten-thousandths of a degree, or a plain number *)
Coords(lat, lng) == [type |-> "object", lat |-> lat, lng |-> lng]
NumberValue(v) == [type |-> "number", lat |-> v, lng |-> v]

Almora == Coords(AlmoraLat, AlmoraLng)
Nainital == Coords(293803, 794636)
Delhi == Coords(286139, 772090)
Places == {Almora, Nainital, Delhi}

(* the result of a floating point computation: NaN, or a distance in km *)
NaN == [nan |-> TRUE, km |-> 0]
Km(d) == [nan |-> FALSE, km |-> d]

(* the Haversine formula with R = 6371 on the sampled places, rounded to km *)
HaversineKm(p, q) ==
  IF p = q THEN 0
  ELSE IF {p, q} = {Almora, Nainital} THEN 31
  ELSE IF {p, q} = {Almora, Delhi} THEN 262
  ELSE 235

(* calculateDistance(coord1, coord2): coord.lat of a plain number is
   undefined, toRadians(undefined) is NaN and NaN runs through the formula *)
calculateDistance(coord1, coord2) ==
  IF coord1.type = "object" /\ coord2.type = "object"
  THEN Km(HaversineKm(coord1, coord2))
  ELSE NaN

(* distance > limit; every comparison with NaN is false *)
GreaterThan(d, limit) == ~d.nan /\ d.km > limit

EventCategories == {"accident", "festival"}
NoHome == [type |-> "null", lat |-> 0, lng |-> 0]
NoToken == ""

(* rows of the preferences table *)
Profiles ==
  [notifications_enabled : BOOLEAN, fcm_token : {NoToken, "tok"},
   categories : {{}, {"accident"}, {"festival"}},
   location_coords : {NoHome} \cup Places]

Subscribers == 1..MaxSubscribers

NotificationEvents == [category : EventCategories, coords : {Almora, Nainital}]

(* .eq('notifications_enabled', true).not('fcm_token', 'is', null) *)
QueryPreferences(prefs) ==
  {u \in Subscribers : prefs[u].notifications_enabled /\ prefs[u].fcm_token # NoToken}

(* the call site passes four numbers, calculateDistance(pref.lat, pref.lng,
   event.lat, event.lng), to the two-parameter function: coord1 and coord2
   are the subscriber's latitude and longitude *)
DistanceToEvent(pref, event) ==
  calculateDistance(NumberValue(pref.location_coords.lat),
                    NumberValue(pref.location_coords.lng))

(* the filter callback of getNotificationRecipients *)
RecipientFilter(pref, event) ==
  IF pref.fcm_token = NoToken THEN FALSE
  ELSE IF pref.categories # {} /\ event.category \notin pref.categories THEN FALSE
  ELSE IF pref.location_coords # NoHome
          /\ GreaterThan(DistanceToEvent(pref, event), GEOFENCE_RADIUS_KM) THEN FALSE
  ELSE TRUE

(* a selection that goes on with the rows although the query failed *)
getNotificationRecipients_ignoresError(event, prefs, queryOk) ==
  {u \in QueryPreferences(prefs) : RecipientFilter(prefs[u], event)}

(* getNotificationRecipients(event): a query error returns [] *)
getNotificationRecipients(event, prefs, queryOk) ==
  IF ~queryOk THEN {}
  ELSE {u \in QueryPreferences(prefs) : RecipientFilter(prefs[u], event)}

GetRecipients ==
  /\ sel.pc = "idle"
  /\ \E event \in NotificationEvents, prefs \in [Subscribers -> Profiles], queryOk \in BOOLEAN :
       sel' = [pc |-> "done", event |-> event, prefs |-> prefs, queryOk |-> queryOk,
               recipients |-> getNotificationRecipients(event, prefs, queryOk)]
  /\ UNCHANGED <<storeVars, geoVars, gem, run, fc, disp, scr>>

RecipientsReturn ==
  /\ sel.pc = "done"
  /\ sel' = IdleCall
  /\ UNCHANGED <<storeVars, geoVars, gem, run, fc, disp, scr>>

RecipientNext ==
  \/ GetRecipients
  \/ RecipientsReturn

RecipientSpec == Init /\ [][RecipientNext]_vars

(* the eligibility rule: opted in, token present, category matches or no
   category list, no home coordinates or home within the radius *)
Eligible(pref, event) ==
  /\ pref.notifications_enabled
  /\ pref.fcm_token # NoToken
  /\ (pref.categories = {} \/ event.category \in pref.categories)
  /\ (pref.location_coords = NoHome
        \/ HaversineKm(pref.location_coords, event.coords) <= GEOFENCE_RADIUS_KM)

(* C11: when the preferences query succeeds the recipients returned are
   exactly the eligible subscribers; a subscriber whose home is farther than
   50 km from the event is not among them *)
C11_ExactlyEligibleRecipients ==
  (sel.pc = "done" /\ sel.queryOk) =>
    sel.recipients = {u \in Subscribers : Eligible(sel.prefs[u], sel.event)}

----------------------------------------------------------------------------
(* The normaliser: processArticleWithGemini and validateGeminiResponse,
   lib/ai/gemini.ts *)

GeminiDefaultMaxRetries == 3

(* values of the maxRetries argument *)
RetryArgs == 0..GeminiDefaultMaxRetries

CATEGORIES ==
  {"accident", "crime", "wildlife", "festival", "celebrity", "emergency", "weather", "public"}

(* JSON values of the parsed response, field by field.  A string-valued
   field is [type, s]; the priority_score is [type, n, half], where half
   marks n + 0.5; "undefined" is an absent field *)
Str(s) == [type |-> "string", s |-> s]
NullField == [type |-> "null", s |-> ""]
AbsentField == [type |-> "undefined", s |-> ""]

Num(n) == [type |-> "number", n |-> n, half |-> FALSE]
NumAndHalf(n) == [type |-> "number", n |-> n, half |-> TRUE]
NumeralString(n) == [type |-> "string", n |-> n, half |-> FALSE]
NullScore == [type |-> "null", n |-> 0, half |-> FALSE]
AbsentScore == [type |-> "undefined", n |-> 0, half |-> FALSE]

(* keywords of the parsed response: an array with elements, [], a string
   or null *)
KeywordValues == {"array", "empty array", "string", "null"}

(* Array.isArray(response.keywords) *)
IsArray(keywords) == keywords \in {"array", "empty array"}

(* the responses the model may give: title stands for the required text
   fields, which validateGeminiResponse treats alike *)
ParsedResponses ==
  [title : {Str("t"), NullField, AbsentField},
   category : {Str("accident"), Str("crime"), Str("sports"), Str(""), NullField, AbsentField},
   priority_score : {Num(0), Num(1), Num(5), Num(6), NumAndHalf(4), NumeralString(4),
                     NullScore, AbsentScore},
   keywords : KeywordValues,
   source_link : {"model"},
   raw_text : {<<"model">>}]

(* field in response, and neither null nor undefined *)
Present(v) == v.type \notin {"null", "undefined"}

(* a category test that accepts any string *)
isCategoryValid_anyString(category) == category.type = "string"

(* isCategoryValid: CATEGORIES.includes(category) *)
isCategoryValid(category) == category.type = "string" /\ category.s \in CATEGORIES

(* the priority_score test without Number.isInteger *)
PriorityScoreValid_anyNumber(score) ==
  score.type = "number" /\ ~(score.n < 1) /\ ~(score.n > 5 \/ (score.n = 5 /\ score.half))

(* typeof number, not below 1, not above 5, Number.isInteger *)
PriorityScoreValid(score) ==
  /\ score.type = "number"
  /\ ~(score.n < 1)
  /\ ~(score.n > 5 \/ (score.n = 5 /\ score.half))
  /\ ~score.half

(* validateGeminiResponse: the message of the Error it throws, or "" *)
validateGeminiResponse(response) ==
  IF ~Present(response.title) THEN "Missing required field: title"
  ELSE IF ~Present(response.category) THEN "Missing required field: category"
  ELSE IF ~Present(response.priority_score) THEN "Missing required field: priority_score"
  ELSE IF response.keywords = "null" THEN "Missing required field: keywords"
  ELSE IF ~isCategoryValid(response.category) THEN "Invalid category"
  ELSE IF ~PriorityScoreValid(response.priority_score) THEN "Invalid priority_score"
  ELSE IF ~IsArray(response.keywords) THEN "keywords must be an array"
  ELSE ""

(* the content argument of processArticleWithGemini, the candidate's raw
   text, as a sequence of pieces: some article text, or by coincidence the
   very pieces of the model's title, a space and the model's summary *)
Contents == {<<"article">>, <<"t", " ", "t">>}

(* lines 154-156, what validateGeminiResponse writes into a response it
   accepts: source_link = sourceLink, the argument of the call, and
   raw_text = response.title + ' ' + response.summary_en, where the title
   stands for the summary too *)
Accepted(response) ==
  [response EXCEPT !.source_link = "request",
                   !.raw_text = <<response.title.s, " ", response.title.s>>]

NoResponse ==
  [title |-> AbsentField, category |-> AbsentField, priority_score |-> AbsentScore,
   keywords |-> "null", source_link |-> "", raw_text |-> <<>>]

(* for (attempt = 0; attempt <= maxRetries; attempt++) *)
LoopContinues_extra(attempt, maxRetries) == attempt <= maxRetries + 1

LoopContinues(attempt, maxRetries) == attempt <= maxRetries

(* processArticleWithGemini(title, content, sourceLink, maxRetries) is called *)
GeminiCall ==
  /\ gem.pc = "idle"
  /\ \E m \in RetryArgs, content \in Contents :
       gem' = [pc |-> "attempt", maxRetries |-> m, content |-> content,
               attempt |-> 0, calls |-> 0,
               failures |-> 0, last |-> "", parsed |-> NoResponse, result |-> NoResponse]
  /\ UNCHANGED <<storeVars, geoVars, sel, run, fc, disp, scr>>

(* the catch block: the attempt failed; back off when attempt < maxRetries,
   then attempt++ and the loop test; past the loop, throw *)
AttemptFailed(outcome, response) ==
  [gem EXCEPT !.pc = IF LoopContinues(gem.attempt + 1, gem.maxRetries)
                     THEN "backoff" ELSE "thrown",
              !.calls = gem.calls + 1, !.failures = gem.failures + 1,
              !.last = outcome, !.parsed = response]

(* one pass of the loop body: generateContent, JSON.parse, validate *)
GeminiAttempt ==
  /\ gem.pc = "attempt"
  /\ \/ \E outcome \in {"transport error", "JSON parse error"} :
          gem' = AttemptFailed(outcome, NoResponse)
     \/ \E response \in ParsedResponses :
          gem' = IF validateGeminiResponse(response) = ""
                 THEN [gem EXCEPT !.pc = "returned", !.calls = gem.calls + 1,
                                  !.last = "", !.parsed = response,
                                  !.result = Accepted(response)]
                 ELSE AttemptFailed(validateGeminiResponse(response), response)
  /\ UNCHANGED <<storeVars, geoVars, sel, run, fc, disp, scr>>

(* the backoff timer of 1000 * 2^attempt ms fires; next pass of the loop *)
GeminiBackoffWake ==
  /\ gem.pc = "backoff"
  /\ gem' = [gem EXCEPT !.pc = "attempt", !.attempt = gem.attempt + 1]
  /\ UNCHANGED <<storeVars, geoVars, sel, run, fc, disp, scr>>

(* the caller has the result or the error *)
GeminiDone ==
  /\ gem.pc \in {"returned", "thrown"}
  /\ gem' = IdleCall
  /\ UNCHANGED <<storeVars, geoVars, sel, run, fc, disp, scr>>

GeminiNext ==
  \/ GeminiCall
  \/ GeminiAttempt
  \/ GeminiBackoffWake
  \/ GeminiDone

GeminiSpec == Init /\ [][GeminiNext]_vars

(* C12: a call that returns has made exactly failures + 1 attempts with at
   most maxRetries failures; a call that throws has made exactly
   maxRetries + 1 attempts, all failed; no call makes more attempts *)
C12_NormalizerRetryBound ==
  gem.pc # "idle" =>
    /\ gem.calls <= gem.maxRetries + 1
    /\ gem.pc = "returned" => gem.calls = gem.failures + 1 /\ gem.failures <= gem.maxRetries
    /\ gem.pc = "thrown" => gem.calls = gem.maxRetries + 1 /\ gem.failures = gem.maxRetries + 1
    /\ gem.pc \in {"attempt", "backoff"} => gem.failures <= gem.maxRetries

(* C12 witness: the default three retries were all used and the fourth
   attempt returned *)
C12_Witness ==
  /\ gem.pc = "returned"
  /\ gem.maxRetries = GeminiDefaultMaxRetries
  /\ gem.failures = GeminiDefaultMaxRetries
  /\ gem.calls = GeminiDefaultMaxRetries + 1

(* the acceptance rule: every required field present, one of the eight
   categories, an integer priority from 1 to 5 *)
WellFormed(response) ==
  /\ Present(response.title) /\ Present(response.category)
  /\ Present(response.priority_score) /\ response.keywords # "null"
  /\ response.category.type = "string" /\ response.category.s \in CATEGORIES
  /\ response.priority_score.type = "number" /\ ~response.priority_score.half
  /\ response.priority_score.n \in 1..5

(* C15: a response with a category outside the eight values, a priority that
   is not an integer in 1..5 or a missing required field counts as a failed
   attempt and is not returned; what is returned carries the category and
   priority exactly as the model gave them *)
C15_InvalidResponseFails ==
  /\ (gem.pc \in {"returned", "backoff", "thrown"} /\ gem.parsed # NoResponse
        /\ ~WellFormed(gem.parsed))
       => (gem.pc # "returned" /\ gem.last # "" /\ gem.failures >= 1)
  /\ gem.pc = "returned" =>
       /\ WellFormed(gem.result)
       /\ gem.result.category = gem.parsed.category
       /\ gem.result.priority_score = gem.parsed.priority_score

(* C15 witness: a response with priority 4.5 failed the last attempt and
   the call threw *)
C15_Witness ==
  /\ gem.pc = "thrown"
  /\ gem.parsed # NoResponse
  /\ gem.parsed.priority_score = NumAndHalf(4)
  /\ gem.parsed.category = Str("accident")
  /\ gem.last = "Invalid priority_score"

----------------------------------------------------------------------------
(* Properties of the Nominatim client *)

GeocodeCalls == {c \in Callers : geo[c].kind = "geocode" /\ geo[c].pc # "idle"}

(* C13: a geocodeLocation call that returns after an answer has sent exactly
   failures + 1 requests, with at most maxRetries failures; after
   maxRetries + 1 failed requests it returns the fallback coordinate with
   success = false, having sent exactly maxRetries + 1 requests; it never
   sends more *)
C13_ResolverRetryBound ==
  \A c \in GeocodeCalls :
    /\ geo[c].requests <= DefaultMaxRetries + 1
    /\ geo[c].failures <= geo[c].requests
    /\ (geo[c].pc = "done" /\ geo[c].result \in {"success", "fallback"} /\ geo[c].requests > 0)
         => (geo[c].requests = geo[c].failures + 1 /\ geo[c].failures <= DefaultMaxRetries)
    /\ (geo[c].pc = "done" /\ geo[c].result = "fallback after retries")
         => /\ geo[c].requests = DefaultMaxRetries + 1
            /\ geo[c].failures = DefaultMaxRetries + 1
            /\ geo[c].coords = ALMORA_COORDINATES
            /\ ~geo[c].success

(* C13 witness: every request of a call failed and the fallback was
   returned *)
C13_Witness ==
  \E c \in GeocodeCalls :
    /\ geo[c].pc = "done"
    /\ geo[c].result = "fallback after retries"
    /\ geo[c].requests = DefaultMaxRetries + 1

InRange(x, degrees) ==
  x.kind = "finite" /\ x.v >= -(degrees * 10000) /\ x.v <= degrees * 10000

(* C16: whatever the location text and whatever the service answers, the
   result geocodeLocation returns has a finite latitude in [-90, 90] and a
   finite longitude in [-180, 180] *)
C16_ResultCoordinatesValid ==
  \A c \in GeocodeCalls :
    geo[c].pc = "done" =>
      /\ InRange(geo[c].coords.lat, 90)
      /\ InRange(geo[c].coords.lng, 180)
      /\ ~geo[c].success => geo[c].coords = ALMORA_COORDINATES

(* C16 witness: a result with longitude 91 was accepted after an earlier
   request of the same call had failed *)
C16_Witness ==
  \E c \in GeocodeCalls :
    /\ geo[c].pc = "done"
    /\ geo[c].success
    /\ geo[c].coords.lng = Finite(910000)
    /\ geo[c].failures >= 1

----------------------------------------------------------------------------
(* Properties of the process request's failure handling *)

NormalizationFailed(r) == req[r].error = "Gemini API failed"

(* C14: a request whose normalisation failed is answered with an error, has
   made no geocoding call, written no event and issued no trigger; the step
   in which it fails leaves the store and the triggers as they were, and the
   request takes no step afterwards *)
C14_FailedNormalizationStoresNothing ==
  /\ [](\A r \in Reqs : NormalizationFailed(r) =>
          /\ req[r].pc = "done" /\ req[r].status = 500
          /\ req[r].geocoded = ""
          /\ ~req[r].isNew /\ req[r].final = NoEvent
          /\ TriggeredBy(r) = {}
          /\ \A m \in notifyQ : m.src # r)
  /\ [][\A r \in Reqs :
          /\ (~NormalizationFailed(r) /\ NormalizationFailed(r)')
               => (events' = events /\ notifyQ' = notifyQ /\ triggers' = triggers)
          /\ NormalizationFailed(r) => req'[r] = req[r]]_vars

(* C14 witness: a request failed in normalisation, its link is not stored,
   and another request stored an event meanwhile *)
C14_Witness ==
  \E r, q \in Reqs :
    /\ NormalizationFailed(r)
    /\ ByLink(req[r].link) = {}
    /\ req[q].status = 201

(* C17: geocoding never fails a request: the step after normalisation always
   goes on to the store, and a request whose geocoding fell back writes the
   fallback coordinates 29.5971, 79.659 into the event it inserts or
   updates *)
C17_GeocodingFailureStillStores ==
  /\ [](\A r \in Reqs :
          (req[r].geocoded = "fallback" /\ req[r].pc \in {"find", "write", "read"})
            => req[r].coords = ALMORA_COORDINATES)
  /\ [][\A r \in Reqs :
          /\ (req[r].pc = "geocode" /\ req'[r] # req[r])
               => (req'[r].pc = "find" /\ req'[r].geocoded \in {"success", "fallback"})
          /\ (req[r].pc = "write" /\ req'[r].pc = "read" /\ req[r].geocoded = "fallback")
               => \A e \in events' \ events :
                    e.content = req[r].content => e.coords = ALMORA_COORDINATES]_vars

(* C17 witness: geocoding fell back and the request created its event, stored
   with the fallback coordinates *)
C17_Witness ==
  \E r \in Reqs :
    /\ req[r].geocoded = "fallback"
    /\ req[r].status = 201
    /\ req[r].final \in events
    /\ req[r].final.coords = ALMORA_COORDINATES
    /\ req[r].final.content = r

----------------------------------------------------------------------------
(* The ingestion run: POST /api/scrape with BaseScraper.scrape *)

MaxArticles == 1

(* the six scrapers the route constructs *)
NumScrapers == 6

Scrapers == 1..NumScrapers

Pending == [state |-> "pending", articles |-> <<>>, errors |-> 0]

(* what fetchContent of scraper a does within the timeout race: it resolves
   with n articles (having recorded e validation errors), rejects, or loses
   the race against the timeout *)
FetchOutcomes ==
  [state : {"resolved"}, articles : 0..MaxArticles, invalid : 0..1]
    \cup [state : {"rejected", "timeout"}, articles : {0}, invalid : {0}]

(* the articles scraper a fetched *)
ArticlesOf(a, n) == [k \in 1..n |-> [source |-> a, k |-> k]]

(* BaseScraper.scrape(): a failure of fetchContent or the timeout is caught
   and recorded with handleError; the ScraperResult carries the source, the
   number of articles and the errors, and the promise is fulfilled *)
scrape(a, outcome) ==
  [status |-> "fulfilled", source |-> a,
   fetched |-> ArticlesOf(a, outcome.articles),
   articlesScraped |-> outcome.articles,
   errors |-> IF outcome.state = "resolved" THEN outcome.invalid ELSE 1,
   failed |-> outcome.state # "resolved"]

(* results.forEach, lines 48-64, up to scraper a: the ScraperResult of every
   fulfilled promise goes to scraperResults; allArticles receives nothing *)
RECURSIVE ScraperResultsUpTo(_, _)
ScraperResultsUpTo(results, a) ==
  IF a = 0 THEN <<>>
  ELSE IF results[a].status = "fulfilled"
  THEN Append(ScraperResultsUpTo(results, a - 1),
              [source |-> results[a].source,
               articlesScraped |-> results[a].articlesScraped,
               errors |-> results[a].errors])
  ELSE ScraperResultsUpTo(results, a - 1)

(* a forEach that does not copy the errors of a fulfilled result *)
ErrorSources_rejectedOnly(results) == {a \in Scrapers : results[a].status = "rejected"}

(* the scrapers with an entry in errors: the errors of a fulfilled result
   are copied, a rejected promise adds '<name> failed: <reason>' *)
ErrorSources(results) ==
  {a \in Scrapers : results[a].status = "rejected"
                      \/ (results[a].status = "fulfilled" /\ results[a].errors > 0)}

(* const allArticles = []: no statement of the handler adds to it *)
AllArticles(results) == <<>>

(* the loop of lines 72-93 over the articles, given the answer of
   /api/process to each: processedCount, failedCount and the articles sent *)
RECURSIVE ProcessLoop(_, _, _)
ProcessLoop(articles, answers, i) ==
  IF i = 0 THEN [processed |-> 0, failed |-> 0, submitted |-> <<>>]
  ELSE LET before == ProcessLoop(articles, answers, i - 1) IN
       [processed |-> before.processed + (IF answers[i] = "ok" THEN 1 ELSE 0),
        failed |-> before.failed + (IF answers[i] = "ok" THEN 0 ELSE 1),
        submitted |-> Append(before.submitted, articles[i])]

RECURSIVE TotalScraped(_, _)
TotalScraped(sources, i) ==
  IF i = 0 THEN 0 ELSE TotalScraped(sources, i - 1) + sources[i].articlesScraped

(* a summary that reports success only when no scraper failed *)
SummarySuccess_allOk(results) == \A a \in Scrapers : ~results[a].failed

(* line 98, success: true; the catch of lines 117-133, which answers 500
   with success: false, is reached by no statement of the try block: scrape()
   and Promise.allSettled do not reject and the loop catches per article *)
SummarySuccess(results) == TRUE

(* the request arrives: without the cron secret it is answered 401;
   otherwise every scraper is started *)
ScrapeStart ==
  /\ run.pc = "idle"
  /\ \E h \in Headers :
       run' = IF ~validateCronRequest(h, cronSecret)
              THEN [pc |-> "done", auth |-> h, status |-> 401, results |-> [a \in Scrapers |-> Pending],
                    sources |-> <<>>, errors |-> {}, allArticles |-> <<>>,
                    submitted |-> <<>>, articlesProcessed |-> 0, articlesFailed |-> 0,
                    totalArticlesScraped |-> 0, success |-> FALSE]
              ELSE [pc |-> "scraping", auth |-> h, status |-> 0, results |-> [a \in Scrapers |-> Pending],
                    sources |-> <<>>, errors |-> {}, allArticles |-> <<>>,
                    submitted |-> <<>>, articlesProcessed |-> 0, articlesFailed |-> 0,
                    totalArticlesScraped |-> 0, success |-> FALSE]
  /\ UNCHANGED <<storeVars, geoVars, sel, gem, fc, disp, scr>>

(* the promise of scraper a settles *)
ScraperSettles(a) ==
  /\ run.pc = "scraping"
  /\ run.results[a] = Pending
  /\ \E outcome \in FetchOutcomes :
       run' = [run EXCEPT !.results[a] = scrape(a, outcome)]
  /\ UNCHANGED <<storeVars, geoVars, sel, gem, fc, disp, scr>>

(* Promise.allSettled resolves: the results are collected, the articles are
   posted to /api/process one after the other and the summary is returned *)
ScrapeFinish ==
  /\ run.pc = "scraping"
  /\ \A a \in Scrapers : run.results[a] # Pending
  /\ LET allArticles == AllArticles(run.results)
         sources == ScraperResultsUpTo(run.results, NumScrapers)
     IN \E answers \in [1..Len(allArticles) -> {"ok", "not ok", "fetch rejects"}] :
          LET loop == ProcessLoop(allArticles, answers, Len(allArticles)) IN
          run' = [run EXCEPT !.pc = "done", !.status = 200,
                             !.sources = sources,
                             !.errors = ErrorSources(run.results),
                             !.allArticles = allArticles,
                             !.submitted = loop.submitted,
                             !.articlesProcessed = loop.processed,
                             !.articlesFailed = loop.failed,
                             !.totalArticlesScraped = TotalScraped(sources, Len(sources)),
                             !.success = SummarySuccess(run.results)]
  /\ UNCHANGED <<storeVars, geoVars, sel, gem, fc, disp, scr>>

(* the response has been sent; the next cron invocation may come *)
ScrapeReturn ==
  /\ run.pc = "done"
  /\ run' = IdleCall
  /\ UNCHANGED <<storeVars, geoVars, sel, gem, fc, disp, scr>>

ScrapeNext ==
  \/ ScrapeStart
  \/ \E a \in Scrapers : ScraperSettles(a)
  \/ ScrapeFinish
  \/ ScrapeReturn

ScrapeSpec == Init /\ [][ScrapeNext]_vars

(* the articles of the scrapers 1..a that fetched successfully, in order *)
RECURSIVE FetchedUpTo(_, _)
FetchedUpTo(results, a) ==
  IF a = 0 THEN <<>>
  ELSE FetchedUpTo(results, a - 1)
         \o (IF results[a].failed THEN <<>> ELSE results[a].fetched)

Candidates == FetchedUpTo(run.results, NumScrapers)

Completed == run.pc = "done" /\ run.status # 401

(* C18: in a completed run the list handed to per-candidate processing is
   the concatenation of the articles of every scraper that succeeded, and
   each of them was submitted to /api/process *)
C18_CandidatesAreAllScrapedArticles ==
  Completed => (run.allArticles = Candidates /\ run.submitted = Candidates)

(* C19: whichever scrapers fail, a run that passed authorization returns its
   summary with a per-source entry for every scraper that ran, carrying that
   scraper's article count, and with an error entry for every scraper that
   threw, timed out or recorded errors *)
C19_ScraperFailuresAreIsolated ==
  /\ run.pc = "done" => run.status \in {200, 401}
  /\ Completed =>
       /\ \A a \in Scrapers : run.results[a] # Pending
       /\ \A a \in Scrapers :
            \E i \in 1..Len(run.sources) :
              /\ run.sources[i].source = a
              /\ run.sources[i].articlesScraped = run.results[a].articlesScraped
              /\ run.results[a].failed => run.sources[i].errors > 0
       /\ \A a \in Scrapers :
            (run.results[a].failed \/ run.results[a].errors > 0) => a \in run.errors

(* C19 witness: one scraper threw, one timed out, a third returned an
   article, and the summary was returned *)
C19_Witness ==
  /\ Completed /\ run.status = 200
  /\ \E a, b, c \in Scrapers :
       /\ run.results[a].failed /\ run.results[b].failed /\ a # b
       /\ run.results[c].articlesScraped > 0
       /\ a \in run.errors /\ b \in run.errors /\ c \notin run.errors

(* C20: in a completed run every candidate was submitted to processing and
   counted, as processed or as failed, whatever happened to the others *)
C20_EveryCandidateSubmittedAndCounted ==
  Completed =>
    /\ Len(run.submitted) = Len(Candidates)
    /\ run.articlesProcessed + run.articlesFailed = Len(Candidates)

----------------------------------------------------------------------------
(* The cron endpoints and their callers *)

(* an event stored longer ago than the retention period *)
OldEvent ==
  [NoEvent EXCEPT !.id = 1, !.link = 1, !.content = 1,
                  !.prio = HIGH_PRIORITY_THRESHOLD - 1,
                  !.category = "accident", !.keywords = "array",
                  !.coords = ALMORA_COORDINATES]

(* the deployment has run for longer than the retention period and holds an
   old event; CRON_SECRET is configured or not *)
CronInit ==
  /\ now = DATA_RETENTION_DAYS + 1
  /\ events = {OldEvent}
  /\ nextId = 2
  /\ req = [r \in Reqs |-> IdleReq]
  /\ cronSecret \in {"", Secret}
  /\ notifyQ = {}
  /\ triggers = {}
  /\ notifyLog = {}
  /\ manual = 0
  /\ cleanup = IdleCleanup
  /\ GeoInit
  /\ LibInit

CronNext ==
  \/ CleanupRequest
  \/ CleanupReturn
  \/ CleanupDelete
  \/ ScrapeStart
  \/ \E a \in Scrapers : ScraperSettles(a)
  \/ ScrapeFinish
  \/ ScrapeReturn

CronSpec == CronInit /\ [][CronNext]_vars

(* the request carries the shared secret as a bearer credential *)
HasBearerCredential(h) == cronSecret # "" /\ h = <<"Bearer ", cronSecret>>

(* C21: a request to /api/scrape or /api/cleanup without the correct
   shared-secret bearer credential, and every request when CRON_SECRET is
   not configured, is answered 401 and does no work: no scraper is started,
   no article is submitted, the events collection is neither queried nor
   changed *)
C21_UnauthorizedDoesNoWork ==
  /\ [](/\ (cleanup.pc # "idle" /\ ~HasBearerCredential(cleanup.auth)) =>
             (cleanup.pc = "unauthorized" /\ cleanup.status = 401 /\ cleanup.old = {})
        /\ (run.pc # "idle" /\ ~HasBearerCredential(run.auth)) =>
             /\ run.pc = "done" /\ run.status = 401
             /\ \A a \in Scrapers : run.results[a] = Pending
             /\ run.submitted = <<>>)
  /\ [][events' # events => HasBearerCredential(cleanup.auth)]_vars

----------------------------------------------------------------------------
(* The scrapers' fetchContent: DainikJagranScraper (a news site) and
   YouTubeScraper, with BaseScraper.validateArticle and resolveUrl *)

MaxPageLinks == 2
MaxVideos == 1
MaxQueries == 2

(* articleLinks.slice(0, 10) and videos.slice(0, 3) *)
ArticlesPerPage == 10
VideosPerQuery == 3

(* an href of the section page: an absolute URL, a path relative to the
   section URL, or a string new URL() rejects; indicator is
   isValidArticleUrl(href) *)
Hrefs == [kind : {"absolute", "relative", "malformed"}, id : 1..2, indicator : BOOLEAN]

SectionPages ==
  UNION {[1..n -> Hrefs] : n \in 0..MaxPageLinks}

(* resolveUrl: new URL(relativeUrl, baseUrl).href, or relativeUrl itself
   when the constructor throws *)
resolveUrl(href) ==
  IF href.kind = "malformed"
  THEN [kind |-> "malformed", id |-> href.id]
  ELSE [kind |-> "absolute", id |-> href.id]

IsAbsoluteUrl(url) == url.kind = "absolute"

SeqRange(q) == {q[i] : i \in 1..Len(q)}

(* lines 35-43: the links of the page that pass isValidArticleUrl, resolved,
   without duplicates *)
RECURSIVE ArticleLinks(_, _)
ArticleLinks(hrefs, n) ==
  IF n = 0 THEN <<>>
  ELSE LET before == ArticleLinks(hrefs, n - 1)
           fullUrl == resolveUrl(hrefs[n])
       IN IF hrefs[n].indicator /\ fullUrl \notin SeqRange(before)
          THEN Append(before, fullUrl)
          ELSE before

(* handleError calls of resolveUrl while the links are collected *)
InvalidUrlErrors(hrefs) ==
  Cardinality({n \in 1..Len(hrefs) : hrefs[n].indicator /\ hrefs[n].kind = "malformed"})

FirstN(q, n) == SubSeq(q, 1, IF Len(q) < n THEN Len(q) ELSE n)

(* .replace(/\s+/g, ' ') *)
RECURSIVE CollapseSpaces(_)
CollapseSpaces(t) ==
  IF Len(t) < 2 THEN t
  ELSE IF t[1] = " " /\ t[2] = " " THEN CollapseSpaces(Tail(t))
  ELSE <<t[1]>> \o CollapseSpaces(Tail(t))

cleanText(t) == Trim(CollapseSpaces(t))

(* what the fetched article page holds: the text of its headline element
   and of its body elements *)
ArticlePages == [title : Texts, content : Texts]

NoArticle ==
  [title |-> <<>>, content |-> <<>>, images |-> "undefined", publishTime |-> "",
   sourceLink |-> [kind |-> "malformed", id |-> 0]]

(* scrapeArticle: null (NoArticle) when the title or the content is not
   found; extractTitle and extractContent trim what they find *)
scrapeArticle(url, page) ==
  LET title == Trim(page.title)
      content == Trim(page.content)
  IN IF title = <<>> THEN NoArticle
     ELSE IF content = <<>> THEN NoArticle
     ELSE [title |-> cleanText(title), content |-> cleanText(content),
           images |-> "array", publishTime |-> "iso", sourceLink |-> url]

(* validateArticle without the test of the title *)
validateArticle_noTitle(article) ==
  /\ article.content # <<>> /\ article.images # "undefined"
  /\ article.publishTime # "" /\ article.sourceLink.id # 0
  /\ Len(Trim(article.content)) # 0
  /\ article.images = "array"

(* validateArticle: every required field is truthy, the content is not
   blank, images is an array *)
validateArticle(article) ==
  /\ article.title # <<>> /\ article.content # <<>> /\ article.images # "undefined"
  /\ article.publishTime # "" /\ article.sourceLink.id # 0
  /\ Len(Trim(article.content)) # 0
  /\ article.images = "array"

(* a candidate the scraper looked at: what was extracted for it and whether
   it was pushed to articles *)
Seen(title, content, url, kept) ==
  [title |-> title, content |-> content, sourceLink |-> url, kept |-> kept]

(* DainikJagranScraper.fetchContent starts: fetchHTML of the section page
   fails for good, or the page is loaded and its links are collected *)
SiteStart ==
  /\ fc.pc = "idle"
  /\ \/ fc' = [pc |-> "done", kind |-> "site", queue |-> <<>>, left |-> 0,
               articles |-> <<>>, seen |-> {}, errors |-> 1]
     \/ \E hrefs \in SectionPages :
          fc' = [pc |-> "articles", kind |-> "site",
                 queue |-> FirstN(ArticleLinks(hrefs, Len(hrefs)), ArticlesPerPage),
                 left |-> 0, articles |-> <<>>, seen |-> {},
                 errors |-> InvalidUrlErrors(hrefs)]
  /\ UNCHANGED <<storeVars, geoVars, sel, gem, run, disp, scr>>

(* one round of the loop of lines 51-60: fetch rejects a URL it cannot parse
   and fetchHTML throws after its retries, as it does when the site fails;
   otherwise the article page is scraped and validated *)
SiteArticle ==
  /\ fc.pc = "articles" /\ fc.queue # <<>>
  /\ LET articleUrl == Head(fc.queue) IN
       \/ fc' = [fc EXCEPT !.queue = Tail(fc.queue), !.errors = @ + 1,
                           !.seen = @ \cup {Seen(<<>>, <<>>, articleUrl, FALSE)}]
       \/ /\ IsAbsoluteUrl(articleUrl)
          /\ \E page \in ArticlePages :
               LET article == scrapeArticle(articleUrl, page)
                   kept == article # NoArticle /\ validateArticle(article)
               IN fc' = [fc EXCEPT !.queue = Tail(fc.queue),
                                   !.errors = @ + (IF kept THEN 0 ELSE 1),
                                   !.articles = IF kept THEN Append(@, article) ELSE @,
                                   !.seen = @ \cup {Seen(Trim(page.title), Trim(page.content),
                                                         articleUrl, kept)}]
  /\ UNCHANGED <<storeVars, geoVars, sel, gem, run, disp, scr>>

(* a video of ytInitialData *)
Videos == [videoId : {1}, title : Texts, description : Texts]

VideoLists == UNION {[1..n -> Videos] : n \in 0..MaxVideos}

(* lines 228-234: the article built from a video *)
VideoArticle(video) ==
  [title |-> video.title,
   content |-> IF video.description # <<>> THEN video.description ELSE video.title,
   images |-> "array", publishTime |-> "iso",
   sourceLink |-> [kind |-> "absolute", id |-> video.videoId]]

RECURSIVE ValidArticles(_, _)
ValidArticles(videos, n) ==
  IF n = 0 THEN <<>>
  ELSE IF validateArticle(VideoArticle(videos[n]))
  THEN Append(ValidArticles(videos, n - 1), VideoArticle(videos[n]))
  ELSE ValidArticles(videos, n - 1)

(* YouTubeScraper.fetchContent starts *)
YouTubeStart ==
  /\ fc.pc = "idle"
  /\ fc' = [pc |-> "queries", kind |-> "youtube", queue |-> <<>>, left |-> MaxQueries,
            articles |-> <<>>, seen |-> {}, errors |-> 0]
  /\ UNCHANGED <<storeVars, geoVars, sel, gem, run, disp, scr>>

(* searchYouTube for the next query: the fetch fails, or the videos of the
   result page are turned into articles and validated *)
YouTubeQuery ==
  /\ fc.pc = "queries" /\ fc.left > 0
  /\ \/ fc' = [fc EXCEPT !.left = @ - 1, !.errors = @ + 1]
     \/ \E found \in VideoLists :
          LET videos == FirstN(found, VideosPerQuery) IN
          fc' = [fc EXCEPT !.left = @ - 1,
                           !.articles = @ \o ValidArticles(videos, Len(videos)),
                           !.errors = @ + Len(videos) - Len(ValidArticles(videos, Len(videos))),
                           !.seen = @ \cup
                             {Seen(VideoArticle(videos[n]).title, VideoArticle(videos[n]).content,
                                   VideoArticle(videos[n]).sourceLink,
                                   validateArticle(VideoArticle(videos[n]))) : n \in 1..Len(videos)}]
  /\ UNCHANGED <<storeVars, geoVars, sel, gem, run, disp, scr>>

(* return articles *)
FetchContentReturn ==
  /\ \/ fc.pc = "articles" /\ fc.queue = <<>>
     \/ fc.pc = "queries" /\ fc.left = 0
  /\ fc' = [fc EXCEPT !.pc = "done"]
  /\ UNCHANGED <<storeVars, geoVars, sel, gem, run, disp, scr>>

(* the scraper is run again by the next ingestion run *)
FetchContentAgain ==
  /\ fc.pc = "done"
  /\ fc' = IdleCall
  /\ UNCHANGED <<storeVars, geoVars, sel, gem, run, disp, scr>>

FetchNext ==
  \/ SiteStart
  \/ SiteArticle
  \/ YouTubeStart
  \/ YouTubeQuery
  \/ FetchContentReturn
  \/ FetchContentAgain

FetchSpec == Init /\ [][FetchNext]_vars

(* a candidate that must not be forwarded *)
Defective(c) ==
  c.title = <<>> \/ IsBlank(c.content) \/ ~IsAbsoluteUrl(c.sourceLink)

(* C22: no candidate with an empty title, a blank body or a link that is not
   an absolute URL is among the articles a scraper returns: each such
   candidate was dropped, and every returned article has a title, a
   non-blank body and an absolute origin link *)
C22_DefectiveCandidatesDropped ==
  fc.pc # "idle" =>
    /\ \A c \in fc.seen : Defective(c) => ~c.kept
    /\ \A i \in 1..Len(fc.articles) :
         /\ fc.articles[i].title # <<>>
         /\ ~IsBlank(fc.articles[i].content)
         /\ IsAbsoluteUrl(fc.articles[i].sourceLink)

(* C22 witness: a call returned an article after dropping a candidate with
   an empty title, one with a blank body, or one with an unparsable link *)
C22_Witness ==
  /\ fc.pc = "done"
  /\ Len(fc.articles) > 0
  /\ \E c \in fc.seen : Defective(c) /\ ~c.kept

----------------------------------------------------------------------------
(* The keyword list of the normalised content *)

(* C25: every response processArticleWithGemini returns has a non-empty
   keyword list, and an attempt whose response has an empty keyword list is
   a failed attempt *)
C25_KeywordsNonEmpty ==
  /\ gem.pc = "returned" => gem.result.keywords = "array"
  /\ (gem.pc \in {"returned", "backoff", "thrown"} /\ gem.parsed.keywords = "empty array")
       => (gem.pc # "returned" /\ gem.failures >= 1)

----------------------------------------------------------------------------
(* POST /api/process with its normaliser: the handler takes category,
   priority_score and keywords from the response processArticleWithGemini
   returns.  Requests are served one after the other. *)

(* step 1 with the normaliser's answer: processArticleWithGemini returns the
   first response that validateGeminiResponse accepts; when the response of
   its last attempt is rejected too it throws and the handler answers 500 *)
Normalize(r) ==
  /\ req[r].pc = "gemini"
  /\ \E response \in ParsedResponses :
       req' = IF validateGeminiResponse(response) = ""
              THEN [req EXCEPT ![r].pc = "geocode",
                               ![r].prio = Accepted(response).priority_score.n,
                               ![r].half = Accepted(response).priority_score.half,
                               ![r].category = Accepted(response).category.s,
                               ![r].keywords = Accepted(response).keywords]
              ELSE Fail(r, 500, "Gemini API failed")
  /\ UNCHANGED <<now, events, nextId, cronSecret, notifyQ, triggers, notifyLog, manual, cleanup, geoVars, libVars>>

IngestNext ==
  \/ \E r \in Reqs : Quiet(r) /\ Receive(r)
  \/ \E r \in Reqs : Quiet(r) /\ Normalize(r)
  \/ \E r \in Reqs : Quiet(r) /\ Geocode(r)
  \/ \E r \in Reqs : Quiet(r) /\ Lookup(r)
  \/ \E r \in Reqs : Quiet(r) /\ UpdateOne(r)
  \/ \E r \in Reqs : Quiet(r) /\ InsertOne(r)
  \/ \E r \in Reqs : Quiet(r) /\ ReadBack(r)
  \/ \E r \in Reqs : Quiet(r) /\ StoreError(r)
  \/ Tick

IngestSpec == Init /\ [][IngestNext]_vars

(* C23: when a request for a link that is already stored writes, the one
   event stored for the link then carries that request's content, category,
   coordinates, priority and keywords; of the earlier document only the id
   and createdAt remain *)
C23_SecondRequestOverwrites ==
  [][\A r \in Reqs :
       (req[r].pc = "write" /\ req'[r].pc = "read" /\ req[r].existing # NoEvent)
       => \A f \in events' :
            f.link = req[r].link =>
              /\ f.content = req[r].content
              /\ f.category = req[r].category
              /\ f.prio = req[r].prio
              /\ f.keywords = req[r].keywords
              /\ f.coords = req[r].coords
              /\ f.id = req[r].existing.id
              /\ f.createdAt = req[r].existing.createdAt
              /\ f.updatedAt = req[r].updTime]_vars

(* C23 witness: the second request for a link was answered 200 with an event
   that differs from the one the first request created in content, category,
   priority, keywords and coordinates, and has its id and createdAt *)
C23_Witness ==
  \E q, r \in Reqs :
    /\ Succeeded(q) /\ req[q].status = 201
    /\ Succeeded(r) /\ req[r].status = 200
    /\ req[r].final \in events
    /\ req[r].final.id = req[q].final.id
    /\ req[r].final.createdAt = req[q].final.createdAt
    /\ req[r].final.updatedAt > req[q].final.updatedAt
    /\ req[r].final.content # req[q].final.content
    /\ req[r].final.category # req[q].final.category
    /\ req[r].final.prio # req[q].final.prio
    /\ req[r].final.keywords # req[q].final.keywords
    /\ req[r].final.coords # req[q].final.coords

(* C24: every stored event has one of the eight categories, an integer
   priority from 1 to 5, a latitude in [-90, 90] and a longitude in
   [-180, 180] *)
C24_StoredEventsValid ==
  \A e \in events :
    /\ e.category \in CATEGORIES
    /\ e.prio \in 1..5 /\ ~e.half
    /\ InRange(e.coords.lat, 90)
    /\ InRange(e.coords.lng, 180)

(* C24 witness: one request was refused because every response of the model
   was invalid, another stored an event of priority 5 at the fallback
   coordinates *)
C24_Witness ==
  /\ \E r \in Reqs : req[r].pc = "done" /\ req[r].error = "Gemini API failed"
  /\ \E e \in events :
       e.prio = 5 /\ e.category = "crime" /\ e.coords = ALMORA_COORDINATES

----------------------------------------------------------------------------
(* The outcome of the ingestion run *)

(* C26: a run that passed authorization and in which at least one scraper
   returned its result answers 200 with success = true, however many of the
   other scrapers failed *)
C26_PartialFailureIsSuccess ==
  (Completed /\ \E a \in Scrapers : ~run.results[a].failed)
    => (run.status = 200 /\ run.success)

(* C26 witness: five scrapers failed, one returned an article, and the run
   answered success *)
C26_Witness ==
  /\ Completed /\ run.success
  /\ \E a \in Scrapers :
       /\ ~run.results[a].failed /\ run.results[a].articlesScraped > 0
       /\ \A b \in Scrapers \ {a} : run.results[b].failed

----------------------------------------------------------------------------
(* Concurrent process requests while no retention sweep runs *)

NoSweepNext ==
  \/ \E r \in Reqs : Process(r)
  \/ \E m \in notifyQ : NotifyArrive(m)
  \/ \E m \in notifyQ : NotifyCatch(m)
  \/ Tick

NoSweepSpec == Init /\ [][NoSweepNext]_vars

(* the triggers issued for the link l *)
TriggersFor(l) == {t \in triggers : req[t.req].link = l}

(* C27: however process requests interleave, as long as no sweep deletes in
   between, at most one request per link observes isNew = true and at most
   one notification trigger is issued per link *)
C27_OneTriggerPerLink ==
  /\ \A r, q \in Reqs :
       (req[r].isNew /\ req[q].isNew /\ req[r].link = req[q].link) => r = q
  /\ \A l \in Links : Cardinality(TriggersFor(l)) <= 1

(* C27 witness: two requests of priority >= 4 raced for the same link, both
   found nothing; one inserted and issued the trigger, the other was refused
   by the unique index and issued none *)
C27_Witness ==
  \E r, q \in Reqs :
    /\ r # q /\ req[r].link = req[q].link
    /\ req[r].prio >= HIGH_PRIORITY_THRESHOLD /\ req[q].prio >= HIGH_PRIORITY_THRESHOLD
    /\ req[r].pc = "done" /\ req[r].isNew /\ TriggeredBy(r) # {}
    /\ req[q].pc = "done" /\ req[q].error = "E11000 duplicate key"
    /\ Cardinality(TriggersFor(req[r].link)) = 1

----------------------------------------------------------------------------
(* A process request racing the retention sweep *)

(* C28: however a process request for an already-stored link interleaves
   with a sweep, once its update has been sent an event is stored for the
   link, and the request never ends with 'Failed to retrieve saved event' *)
C28_UpdateSurvivesSweep ==
  \A r \in Reqs :
    /\ (req[r].pc = "read" /\ req[r].existing # NoEvent) => ByLink(req[r].link) # {}
    /\ (req[r].pc = "done" /\ ~req[r].isNew)
         => req[r].error # "Failed to retrieve saved event"

----------------------------------------------------------------------------
(* triggerEventNotifications step by step, with getNotificationRecipients
   and sendMulticastNotification (lib/notifications/fcm.ts) *)

(* the priorities triggerEventNotifications is invoked with *)
TriggerPriorities == 1..5

(* lines 130-132: the tokens of the recipients, without the null ones *)
RecipientTokens(recipients, prefs) ==
  {u \in recipients : prefs[u].fcm_token # NoToken}

(* a dispatcher that sends one message per token *)
MulticastCalls_perToken(tokens) == Cardinality(tokens)

(* lines 134-148: no token returns before the send; otherwise
   sendMulticastNotification is called once with all the tokens *)
MulticastCalls(tokens) == IF tokens = {} THEN 0 ELSE 1

(* what sendEachForMulticast answers for the tokens: it throws, or gives one
   response per token *)
MulticastAnswers(tokens) ==
  [thrown : {TRUE}, responses : {[u \in tokens |-> "not sent"]}]
    \cup [thrown : {FALSE}, responses : [tokens -> {"success", "failure"}]]

(* a catch block that reports no failure *)
sendMulticastNotification_silent(tokens, answer) ==
  IF tokens = {} THEN [successCount |-> 0, failureCount |-> 0]
  ELSE IF answer.thrown
  THEN [successCount |-> 0, failureCount |-> 0]
  ELSE [successCount |-> Cardinality({u \in tokens : answer.responses[u] = "success"}),
        failureCount |-> Cardinality({u \in tokens : answer.responses[u] = "failure"})]

(* sendMulticastNotification: the counts of the batch response, or 0 and
   tokens.length when the call throws *)
sendMulticastNotification(tokens, answer) ==
  IF tokens = {} THEN [successCount |-> 0, failureCount |-> 0]
  ELSE IF answer.thrown
  THEN [successCount |-> 0, failureCount |-> Cardinality(tokens)]
  ELSE [successCount |-> Cardinality({u \in tokens : answer.responses[u] = "success"}),
        failureCount |-> Cardinality({u \in tokens : answer.responses[u] = "failure"})]

(* how the preferences query of getNotificationRecipients ends: with rows,
   with an error object (lines 55-58), or by rejecting (its catch, lines
   95-98) *)
QueryOutcomes == {"data", "error", "rejects"}

(* how an invocation ends: every return statement of the function resolves
   the promise; the catch of lines 166-169 turns anything thrown in the body
   into the returned {sent: 0, failed: 0}, and neither
   getNotificationRecipients nor sendMulticastNotification lets an error out *)
TriggerOutcome(bodyThrew) == "returned"

(* the priority test: below the threshold the function returns {0, 0} *)
TriggerStart ==
  /\ disp.pc = "idle"
  /\ \E event \in NotificationEvents, priorityScore \in TriggerPriorities :
       disp' = [pc |-> IF shouldTriggerNotification(priorityScore) THEN "selecting" ELSE "done",
                event |-> event, priorityScore |-> priorityScore,
                selected |-> FALSE, query |-> "", recipients |-> {}, tokens |-> {},
                pushCalls |-> 0, thrown |-> FALSE, responses |-> <<>>,
                sent |-> 0, failed |-> 0,
                outcome |-> IF shouldTriggerNotification(priorityScore)
                            THEN "" ELSE TriggerOutcome(FALSE)]
  /\ UNCHANGED <<storeVars, geoVars, sel, gem, run, fc, scr>>

(* getNotificationRecipients has returned: without recipients or tokens the
   function returns {0, 0}; otherwise the multicast message is sent *)
TriggerSelected ==
  /\ disp.pc = "selecting"
  /\ \E prefs \in [Subscribers -> Profiles], query \in QueryOutcomes :
       LET recipients == getNotificationRecipients(disp.event, prefs, query = "data")
           tokens == RecipientTokens(recipients, prefs)
       IN disp' = [disp EXCEPT !.pc = IF recipients = {} \/ tokens = {}
                                      THEN "done" ELSE "sending",
                               !.outcome = IF recipients = {} \/ tokens = {}
                                           THEN TriggerOutcome(FALSE) ELSE "",
                               !.selected = TRUE,
                               !.query = query,
                               !.recipients = recipients,
                               !.tokens = IF recipients = {} THEN {} ELSE tokens,
                               !.pushCalls = IF recipients = {} THEN 0
                                             ELSE MulticastCalls(tokens)]
  /\ UNCHANGED <<storeVars, geoVars, sel, gem, run, fc, scr>>

(* sendMulticastNotification has returned: the outcomes are logged and the
   counts returned *)
TriggerSent ==
  /\ disp.pc = "sending"
  /\ \E answer \in MulticastAnswers(disp.tokens) :
       LET result == sendMulticastNotification(disp.tokens, answer) IN
       disp' = [disp EXCEPT !.pc = "done", !.outcome = TriggerOutcome(FALSE),
                            !.thrown = answer.thrown,
                            !.responses = answer.responses,
                            !.sent = result.successCount,
                            !.failed = result.failureCount]
  /\ UNCHANGED <<storeVars, geoVars, sel, gem, run, fc, scr>>

(* the caller has the counts *)
TriggerReturn ==
  /\ disp.pc = "done"
  /\ disp' = IdleCall
  /\ UNCHANGED <<storeVars, geoVars, sel, gem, run, fc, scr>>

DispatchNext ==
  \/ TriggerStart
  \/ TriggerSelected
  \/ TriggerSent
  \/ TriggerReturn

DispatchSpec == Init /\ [][DispatchNext]_vars

(* C29: once the multicast send has been made, every token of the selected
   recipients has its own outcome whatever the outcome of the others, and
   sent + failed is the number of those tokens; when the whole call fails,
   sent = 0 and failed = the number of tokens *)
C29_EveryTokenCounted ==
  (disp.pc = "done" /\ disp.pushCalls > 0) =>
    /\ disp.tokens = disp.recipients
    /\ DOMAIN disp.responses = disp.tokens
    /\ disp.sent + disp.failed = Cardinality(disp.tokens)
    /\ disp.thrown => (disp.sent = 0 /\ disp.failed = Cardinality(disp.tokens))
    /\ ~disp.thrown =>
         disp.sent = Cardinality({u \in disp.tokens : disp.responses[u] = "success"})

(* C29 witness: of two tokens one was delivered and one failed *)
C29_Witness ==
  /\ disp.pc = "done" /\ disp.pushCalls > 0
  /\ Cardinality(disp.tokens) = 2
  /\ disp.sent = 1 /\ disp.failed = 1

(* C30: an invocation makes at most one multicast call, and that call
   carries the tokens of all selected recipients; it makes exactly one when
   the priority is >= 4 and a recipient was selected, none when no recipient
   was selected or the priority is below 4 *)
C30_OneMulticastCall ==
  disp.pc # "idle" =>
    /\ disp.pushCalls <= 1
    /\ disp.pushCalls = 1 => (disp.tokens = disp.recipients /\ disp.tokens # {})
    /\ (disp.pc \in {"sending", "done"} /\ disp.priorityScore >= HIGH_PRIORITY_THRESHOLD
          /\ disp.recipients # {}) => disp.pushCalls = 1
    /\ disp.recipients = {} => disp.pushCalls = 0
    /\ disp.priorityScore < HIGH_PRIORITY_THRESHOLD => (disp.pushCalls = 0 /\ ~disp.selected)

(* C30 witness: two recipients were selected and one call carried both
   tokens *)
C30_Witness ==
  /\ disp.pc = "done"
  /\ Cardinality(disp.recipients) = 2
  /\ disp.pushCalls = 1
  /\ disp.tokens = disp.recipients


(* C31: an invocation always ends by returning, never by throwing; when the
   subscriber-store query fails, no recipient is selected, no push call is
   made and {sent: 0, failed: 0} is returned; when the push service fails,
   the invocation still returns, with sent = 0 and the failure in the failed
   count *)
C31_FailuresAreReturned ==
  /\ disp.pc = "done" => disp.outcome = "returned"
  /\ (disp.pc # "idle" /\ disp.selected /\ disp.query # "data") =>
       /\ disp.pc = "done"
       /\ disp.recipients = {} /\ disp.pushCalls = 0
       /\ disp.sent = 0 /\ disp.failed = 0
  /\ (disp.pc = "done" /\ disp.thrown) =>
       /\ disp.sent = 0
       /\ disp.failed = Cardinality(disp.tokens) /\ disp.failed > 0

(* C31 witness: the query of an invocation failed and it returned {0, 0} *)
C31_Witness ==
  /\ disp.pc = "done" /\ disp.selected
  /\ disp.query \in {"error", "rejects"}
  /\ disp.outcome = "returned"


----------------------------------------------------------------------------
(* The resolver's returns without a usable result *)

(* C32: when a search request of geocodeLocation is answered at transport
   level with an empty list, or with a first result whose coordinates fail
   validation, the call returns at once the fallback coordinate with
   success = false: it does not back off, and the answered request is the
   last one it sends *)
C32_NoResultReturnsFallback ==
  /\ [](\A c \in GeocodeCalls :
          geo[c].answer \in {"empty", "invalid"} =>
            /\ geo[c].pc = "done"
            /\ geo[c].coords = ALMORA_COORDINATES
            /\ ~geo[c].success
            /\ geo[c].requests = geo[c].failures + 1)
  /\ [][\A c \in Callers :
          (geo[c].kind = "geocode" /\ geo[c].answer \in {"empty", "invalid"})
            => /\ geo'[c].pc \in {"done", "idle"}
               /\ geo'[c].requests <= geo[c].requests]_vars

(* C32 witness: after one failed request the next was answered with an
   out-of-range result and the fallback was returned with two requests sent *)
C32_Witness ==
  \E c \in GeocodeCalls :
    /\ geo[c].pc = "done"
    /\ geo[c].answer = "invalid"
    /\ geo[c].failures = 1 /\ geo[c].requests = 2
    /\ geo[c].coords = ALMORA_COORDINATES /\ ~geo[c].success

(* only spaces, or nothing at all *)
OnlyWhitespace(t) == \A i \in 1..Len(t) : t[i] = " "

(* C33: a geocodeLocation call with empty or whitespace-only text returns
   the fallback coordinate with success = false in the step that makes the
   call, sends no request, and leaves lastRequestTime as it was *)
C33_BlankTextShortCircuits ==
  /\ [](\A c \in GeocodeCalls :
          OnlyWhitespace(geo[c].text) =>
            /\ geo[c].pc = "done"
            /\ geo[c].coords = ALMORA_COORDINATES
            /\ ~geo[c].success
            /\ geo[c].requests = 0)
  /\ [][\A c \in Callers :
          (geo[c].pc = "idle" /\ geo'[c].kind = "geocode" /\ OnlyWhitespace(geo'[c].text))
            => (lastRequestTime' = lastRequestTime /\ sendLog' = sendLog)]_vars

(* C33 witness: a whitespace-only call has returned the fallback while the
   rate limiter holds the time of an earlier request *)
C33_Witness ==
  \E c \in GeocodeCalls :
    /\ geo[c].pc = "done"
    /\ geo[c].text = <<" ", " ">>
    /\ geo[c].requests = 0
    /\ lastRequestTime > 0
    /\ geo[c].coords = ALMORA_COORDINATES /\ ~geo[c].success


----------------------------------------------------------------------------
(* C34: the result of every processArticleWithGemini call that returns has
   for source_link the sourceLink argument of the call, whatever the model
   gave for it, and for raw_text the content argument of the call, the
   candidate's raw text *)
C34_ResultCarriesCandidate ==
  gem.pc = "returned" =>
    /\ gem.result.source_link = "request"
    /\ gem.result.raw_text = gem.content


----------------------------------------------------------------------------
(* BaseScraper (lib/scrapers/base-scraper.ts): scrape, executeWithTimeout,
   fetchHTML and handleError.  fetchContent is the subclass's: it loads its
   pages one after the other through fetchHTML; when fetchHTML throws it
   either records the error with handleError and goes on (as the news-site
   scrapers do) or lets the error out. *)

MaxPages == 2

(* the constructor's defaults: maxRetries 3, retryDelay 1000 ms *)
ScraperMaxRetries == 3
RetryDelay == 1000

(* values of config.maxRetries *)
ScraperRetryArgs == 1..ScraperMaxRetries

(* a backoff that waits retryDelay every time *)
FetchRetryDelay_fixed(attempt) == RetryDelay

(* line 130: retryDelay * Math.pow(2, attempt - 1) *)
FetchRetryDelay(attempt) == RetryDelay * Pow2(attempt - 1)

(* for (attempt = 1; attempt <= maxRetries; attempt++) in fetchHTML *)
FetchLoopContinues(attempt, maxRetries) == attempt <= maxRetries

(* a fetchHTML call: the answers of its attempts so far, the delays it has
   slept, and how it ended, with the attempt whose body it returned or whose
   error it threw *)
NewFetch == [answers |-> <<>>, waits |-> <<>>, outcome |-> "", from |-> 0]

(* a scrape that lets the rejection of the race out *)
ScraperResult_rethrows(settled, articles, errors) ==
  IF settled = "fulfilled"
  THEN [promise |-> "resolved", articlesScraped |-> articles, errors |-> errors]
  ELSE [promise |-> "rejected", articlesScraped |-> 0, errors |-> errors]

(* lines 58-78: the race is fulfilled with the articles, or its rejection
   is caught, handleError pushes 'Scraping failed: ...' and articles stays
   []; either way the ScraperResult is returned *)
ScraperResult(settled, articles, errors) ==
  IF settled = "fulfilled"
  THEN [promise |-> "resolved", articlesScraped |-> articles, errors |-> errors]
  ELSE [promise |-> "resolved", articlesScraped |-> 0,
        errors |-> Append(errors, <<"Scraping failed", settled>>)]

(* scrape() is called on a new instance: fetchContent runs up to its first
   await, the fetch of its first page, and the timer of executeWithTimeout
   is armed *)
ScrapeCall ==
  /\ scr.pc = "idle"
  /\ \E maxRetries \in ScraperRetryArgs, pages \in 1..MaxPages, catches \in BOOLEAN :
       scr' = [pc |-> "racing", maxRetries |-> maxRetries, catches |-> catches,
               content |-> "fetch", pagesLeft |-> pages, articles |-> 0,
               html |-> NewFetch, fetches |-> 1, errors |-> <<>>,
               settled |-> "", promise |-> "pending", articlesScraped |-> 0,
               fetchesAtReturn |-> 0, errorsAtReturn |-> <<>>]
  /\ UNCHANGED <<storeVars, geoVars, sel, gem, run, fc, disp>>

(* scrape's continuation once the race has settled: nothing when scrape has
   returned already *)
RaceSettles(s, settled) ==
  IF s.pc # "racing" THEN s
  ELSE LET result == ScraperResult(settled, s.articles, s.errors) IN
       [s EXCEPT !.pc = "returned", !.settled = settled, !.promise = result.promise,
                 !.articlesScraped = result.articlesScraped,
                 !.errors = result.errors,
                 !.fetchesAtReturn = s.fetches,
                 !.errorsAtReturn = result.errors]

(* fetchContent after the fetchHTML call for a page has ended, s.html being
   that call: a body makes an article; an error is recorded with handleError
   by a fetchContent that catches, and rejects one that does not.  Then the
   next page is fetched, or the articles are returned *)
AfterPage(s) ==
  IF s.html.outcome = "threw" /\ ~s.catches
  THEN RaceSettles([s EXCEPT !.content = "rejected"], "HTTP error")
  ELSE LET t == [s EXCEPT !.pagesLeft = @ - 1,
                          !.articles = @ + (IF s.html.outcome = "returned" THEN 1 ELSE 0),
                          !.errors = IF s.html.outcome = "threw"
                                     THEN Append(@, <<"Failed to fetch page">>) ELSE @]
       IN IF t.pagesLeft = 0
          THEN RaceSettles([t EXCEPT !.content = "fulfilled"], "fulfilled")
          ELSE [t EXCEPT !.content = "fetch", !.html = NewFetch, !.fetches = @ + 1]

(* fetchHTML, an attempt ends: a 2xx answer whose body is read returns the
   body; a transport error, another status or a body that cannot be read is
   caught, and the call sleeps when attempt < maxRetries, else throws the
   last error *)
FetchAnswers ==
  /\ scr.pc # "idle" /\ scr.content = "fetch"
  /\ \E answer \in {"ok", "failed"} :
       LET attempt == Len(scr.html.answers) + 1
           answers == Append(scr.html.answers, answer)
       IN scr' =
            IF answer = "ok"
            THEN AfterPage([scr EXCEPT !.html = [@ EXCEPT !.answers = answers,
                                                          !.outcome = "returned",
                                                          !.from = attempt]])
            ELSE IF attempt < scr.maxRetries
            THEN [scr EXCEPT !.content = "sleep",
                             !.html = [@ EXCEPT !.answers = answers,
                                                !.waits = Append(@, FetchRetryDelay(attempt))]]
            ELSE AfterPage([scr EXCEPT !.html = [@ EXCEPT !.answers = answers,
                                                          !.outcome = "threw",
                                                          !.from = attempt]])
  /\ UNCHANGED <<storeVars, geoVars, sel, gem, run, fc, disp>>

(* the backoff of fetchHTML is over: attempt++, the loop test, the next
   fetch *)
FetchSleepWakes ==
  /\ scr.pc # "idle" /\ scr.content = "sleep"
  /\ FetchLoopContinues(Len(scr.html.answers) + 1, scr.maxRetries)
  /\ scr' = [scr EXCEPT !.content = "fetch", !.fetches = @ + 1]
  /\ UNCHANGED <<storeVars, geoVars, sel, gem, run, fc, disp>>

(* the timer of executeWithTimeout fires while fetchContent is pending: the
   race rejects with 'Timeout after 30000ms'.  Promise.race settles the
   race only: fetchContent stays where it is *)
TimerFires ==
  /\ scr.pc = "racing"
  /\ scr' = RaceSettles(scr, "Timeout after 30000ms")
  /\ UNCHANGED <<storeVars, geoVars, sel, gem, run, fc, disp>>

(* the caller has the ScraperResult and drops the instance once its
   fetchContent has come to an end *)
ScrapeDone ==
  /\ scr.pc = "returned"
  /\ scr.content \in {"fulfilled", "rejected"}
  /\ scr' = IdleCall
  /\ UNCHANGED <<storeVars, geoVars, sel, gem, run, fc, disp>>

AdapterNext ==
  \/ ScrapeCall
  \/ FetchAnswers
  \/ FetchSleepWakes
  \/ TimerFires
  \/ ScrapeDone

AdapterSpec == Init /\ [][AdapterNext]_vars

(* C35: a scrape() call that has ended has resolved with a ScraperResult,
   never rejected; when fetchContent threw, or the timeout came while
   fetchContent was still at work, the result has articlesScraped = 0 and
   its errors end with an entry that describes the failure *)
C35_ScrapeNeverRejects ==
  scr.pc = "returned" =>
    /\ scr.promise = "resolved"
    /\ (scr.content \in {"fetch", "sleep"}) => (scr.settled = "Timeout after 30000ms")
    /\ (scr.content = "rejected") => (scr.settled # "fulfilled")
    /\ (scr.settled # "fulfilled") =>
         /\ scr.articlesScraped = 0
         /\ scr.errorsAtReturn # <<>>
         /\ scr.errorsAtReturn[Len(scr.errorsAtReturn)] = <<"Scraping failed", scr.settled>>

(* C35 witness: the timeout came during the second page, after the first
   had made an article: the result reports no article and the timeout *)
C35_Witness ==
  /\ scr.pc = "returned"
  /\ scr.promise = "resolved"
  /\ scr.content = "fetch"
  /\ scr.articles = 1
  /\ scr.articlesScraped = 0
  /\ scr.errorsAtReturn = <<(<<"Scraping failed", "Timeout after 30000ms">>)>>

(* C36: once scrape() has returned its ScraperResult, the instance makes
   no further fetch and the errors list the result holds stays as it was *)
C36_NoWorkAfterReturn ==
  scr.pc = "returned" =>
    /\ scr.fetches = scr.fetchesAtReturn
    /\ scr.errors = scr.errorsAtReturn

(* C37: a fetchHTML call makes at most maxRetries attempts; after its n-th
   failed attempt, unless that was the last one allowed, it waits
   retryDelay * 2^(n-1); it returns the body of the first attempt that
   answers 2xx, and throws the error of the last attempt once maxRetries
   attempts have failed *)
C37_FetchHtmlRetryBound ==
  scr.pc # "idle" =>
    LET h == scr.html
        n == Len(scr.html.answers)
    IN /\ n <= scr.maxRetries
       /\ \A i \in 1..Len(h.waits) : h.waits[i] = RetryDelay * Pow2(i - 1)
       /\ \A i \in 1..(n - 1) : h.answers[i] = "failed"
       /\ (h.outcome = "") =>
            (/\ \A i \in 1..n : h.answers[i] = "failed"
             /\ Len(h.waits) = n
             /\ n < scr.maxRetries)
       /\ (h.outcome = "returned") =>
            (h.answers[n] = "ok" /\ h.from = n /\ Len(h.waits) = n - 1)
       /\ (h.outcome = "threw") =>
            (/\ n = scr.maxRetries
             /\ h.answers[n] = "failed" /\ h.from = n
             /\ Len(h.waits) = n - 1)

(* C37 witness: two attempts failed, 1000 and 2000 ms were waited and the
   third attempt's body was returned *)
C37_Witness ==
  /\ scr.pc # "idle"
  /\ scr.html.outcome = "returned"
  /\ scr.html.answers = <<"failed", "failed", "ok">>
  /\ scr.html.waits = <<1000, 2000>>
  /\ scr.html.from = 3


----------------------------------------------------------------------------
(* The counts of the ingestion summary *)

(* C38: in the summary of every run that passed authorization,
   articlesProcessed + articlesFailed = totalArticlesScraped, and the
   candidates submitted to processing are as many as that *)
C38_CountsAddUp ==
  Completed =>
    /\ run.articlesProcessed + run.articlesFailed = run.totalArticlesScraped
    /\ Len(run.submitted) = run.totalArticlesScraped


----------------------------------------------------------------------------
(* The retention sweep on a store that holds events of every age, while
   articles are processed *)

(* an event stored on day t for link i *)
AgedEvent(i, t) ==
  [OldEvent EXCEPT !.id = i, !.link = i, !.content = i, !.createdAt = t, !.updatedAt = t]

(* creation days around the cutoff of a sweep run on day
   DATA_RETENTION_DAYS + 1: the day before, the cutoff day, the day after *)
SweepAges == 0..2

(* the deployment has run for longer than the retention period: for each
   link the store holds no event, or one of some age *)
SweepInit ==
  /\ now = DATA_RETENTION_DAYS + 1
  /\ \E age \in [Links -> SweepAges \cup {-1}] :
       events = {AgedEvent(l, age[l]) : l \in {k \in Links : age[k] # -1}}
  /\ nextId = MaxLinks + 1
  /\ req = [r \in Reqs |-> IdleReq]
  /\ cronSecret = Secret
  /\ notifyQ = {}
  /\ triggers = {}
  /\ notifyLog = {}
  /\ manual = 0
  /\ cleanup = IdleCleanup
  /\ GeoInit
  /\ LibInit

SweepNext ==
  \/ \E r \in Reqs : Process(r)
  \/ \E m \in notifyQ : NotifyArrive(m)
  \/ \E m \in notifyQ : NotifyCatch(m)
  \/ CleanupRequest
  \/ CleanupReturn
  \/ CleanupDelete

SweepSpec == SweepInit /\ [][SweepNext]_vars

(* C39: the step that completes an authorized cleanup run leaves no event
   created before the run's cutoff, the day of the run minus
   DATA_RETENTION_DAYS, and leaves every event created on or after the
   cutoff stored as it was *)
C39_SweepRemovesExactlyTheOld ==
  [][(cleanup.pc = "delete" /\ cleanup'.pc = "idle") =>
       /\ validateCronRequest(cleanup.auth, cronSecret)
       /\ cleanup.cutoff = now - DATA_RETENTION_DAYS
       /\ \A e \in events' : ~(e.createdAt < cleanup.cutoff)
       /\ \A e \in events : (e.createdAt >= cleanup.cutoff) => (e \in events')]_vars

(* C39 witness: the event created the day before the cutoff, which a
   request had looked up, has been removed by a sweep, and the event created
   on the cutoff day is still stored *)
C39_Witness ==
  /\ cleanup.pc = "idle"
  /\ AgedEvent(1, 1) \in events
  /\ \A e \in events : e.createdAt >= now - DATA_RETENTION_DAYS
  /\ ByLink(2) = {}
  /\ \E r \in Reqs : req[r].existing = AgedEvent(2, 0)


----------------------------------------------------------------------------
(* POST /api/process called by anyone *)

OpenNext ==
  \/ \E r \in Reqs : Quiet(r) /\ \E h \in Headers : ReceiveFrom(r, h)
  \/ \E r \in Reqs : Quiet(r) /\ Gemini(r)
  \/ \E r \in Reqs : Quiet(r) /\ Geocode(r)
  \/ \E r \in Reqs : Quiet(r) /\ Lookup(r)
  \/ \E r \in Reqs : Quiet(r) /\ UpdateOne(r)
  \/ \E r \in Reqs : Quiet(r) /\ InsertOne(r)
  \/ \E r \in Reqs : Quiet(r) /\ ReadBack(r)
  \/ \E r \in Reqs : Quiet(r) /\ StoreError(r)
  \/ Tick

OpenSpec == Init /\ [][OpenNext]_vars

(* C40: a process request that did not present the shared secret is
   answered without a call to the normaliser or the geocoder and without an
   insert or update, and every stored event was written by a request that
   presented the secret *)
C40_WritesNeedCredential ==
  /\ \A r \in Reqs :
       (req[r].pc # "idle" /\ ~validateCronRequest(req[r].auth, cronSecret))
         => (req[r].pc = "done" /\ req[r].status \in {400, 401} /\ req[r].final = NoEvent)
  /\ \A e \in events :
       \E r \in Reqs : req[r].link = e.link /\ validateCronRequest(req[r].auth, cronSecret)

====
